---- MODULE Spec2Model ----
(***************************************************************************)
(* Model of the resilience pipeline and of the webhook handler of the      *)
(* WorkWeixin channel plugin:                                              *)
(*   CircuitBreaker  src/src/infrastructure/circuit-breaker.ts             *)
(*   RateLimiter     src/src/infrastructure/rate-limiter.ts                *)
(*   RequestCache    src/src/infrastructure/index.ts                       *)
(*   MessageQueue    src/unnamed/part_001                                  *)
(*   HttpConnectionPool  src/src/infrastructure/connection-pool.ts         *)
(*   getAccessToken, sendWorkWeixinMessage  src/src/runtime.ts             *)
(*   webhook handler src/index.ts                                          *)
(*   verifySignature, decryptMessage  src/index.ts                         *)
(* Each component has its own specification (SpecCB, SpecRL, SpecRC,       *)
(* SpecMQ, SpecMQSingle, SpecMQNoClear and SpecMQLive, SpecH and          *)
(* SpecHLive, SpecVS, SpecDM and SpecDMEnvelope, SpecCP, SpecConn, SpecAT, *)
(* SpecSend, SpecQueued); the                                              *)
(* variables of the other components keep their initial values.  Time is   *)
(* Date.now() in abstract units.                                           *)
(***************************************************************************)
EXTENDS Integers, Sequences, FiniteSets, TLC

VARIABLES
  now,              \* Date.now()
  \* CircuitBreaker
  state, failureCount, lastFailureTime, halfOpenSuccess,
  inflight,         \* execute() calls whose fn has started and not settled
  trials,           \* calls admitted since the breaker entered half-open
  cbLast,           \* the last CircuitBreaker operation and its outcome
  \* RateLimiter
  requests,         \* Map<string, number[]>
  admitted,         \* per key, the timestamps of every check() that returned allowed
  rlLast,           \* the last RateLimiter operation and its result
  denial,           \* per key, the last denied check() and the admission after it
  \* RequestCache
  cache,            \* Map<string, CacheEntry>, in insertion order
  rcLast,           \* the last RequestCache operation and its return value
  \* MessageQueue
  queue,            \* QueueItem[], as item ids
  itemRetries,      \* item.retries of every item
  processing, failed, stats, idCounter,
  workers,          \* the running process() calls: where each one is suspended
  attempts,         \* per item, the number of sendFn invocations so far
  settled,          \* per item, how processItem left it: none, success, failed
  draining,         \* a drain() call is waiting on its poll timer
  mqLast,           \* the last MessageQueue operation, its item, error and result
  concurrency,      \* the maxConcurrent option the MessageQueue was constructed with
  \* webhook handler
  req,              \* the request being handled and what its checks evaluate to
  hpc,              \* where the handler is: idle, reading, dispatching, done
  res,              \* res.statusCode and the body passed to res.end
  calls,            \* calls of verifySignature and decryptMessage for req
  dispatched,       \* calls of dispatchReplyWithBufferedBlockDispatcher for req
  dispatchResult,   \* how that call settled
  \* verifySignature and decryptMessage
  vsArgs,           \* the arguments of a verifySignature call
  vsRet,            \* whether it has returned, and its return value
  dmArgs,           \* a message and the parameters it was encrypted with
  dmShape,          \* how the envelope of that message is built
  dmRet,            \* whether decryptMessage has settled, and how
  \* HttpConnectionPool
  cpStats,          \* PoolStats, avgResponseTime as a fraction
  cpReqs,           \* the request() calls made so far, in call order
  cpTimers,         \* the calls whose setTimeout is pending
  cpLast,           \* the last HttpConnectionPool operation
  \* getAccessToken
  atPending,        \* per corpId, the calls waiting for the gettoken response
  atIssued,         \* the number of gettoken requests made so far
  atStored,         \* per corpId, the last token fetched with errcode 0
  atLast,           \* the last getAccessToken step and what it returned
  \* sendWorkWeixinMessage and waitForSlot
  callers,          \* the calls in progress: where each one is suspended
  executes,         \* per accountId, the circuitBreaker.execute calls made by sends
  sendLast,         \* the last step of a caller
  \* HttpConnectionPool registry
  connections,      \* this.connections in insertion order
  connLast,         \* the last registry operation and the entry it returned
  \* sendWorkWeixinMessageQueued
  executed,         \* the process() calls whose send is past circuitBreaker.execute
  fnCalls           \* per item, the calls of the function that does the requests

cbVars == <<state, failureCount, lastFailureTime, halfOpenSuccess, inflight, trials, cbLast>>
rlVars == <<requests, admitted, rlLast, denial>>
rcVars == <<cache, rcLast>>
mqVars == <<queue, itemRetries, processing, failed, stats, idCounter, workers, attempts,
           settled, draining, mqLast>>
hVars == <<req, hpc, res, calls, dispatched, dispatchResult>>
pfVars == <<vsArgs, vsRet, dmArgs, dmShape, dmRet>>
cpVars == <<cpStats, cpReqs, cpTimers, cpLast>>
atVars == <<atPending, atIssued, atStored, atLast>>
sendVars == <<callers, executes, sendLast>>
connVars == <<connections, connLast>>
qsVars == <<executed, fnCalls>>
vars == <<now, cbVars, rlVars, rcVars, mqVars, hVars, pfVars, cpVars, atVars, concurrency,
          sendVars, connVars, qsVars>>

\* ---------------------------------------------------------------- bounds
\* horizons of the clocks and caps of the counters
MaxTime == 7
MaxInflight == 2
MaxTimeRL == 5
MaxTimeRC == 3
MaxHits == 2
MaxItems == 3
MaxStrLen == 2
MaxTimeCP == 4
MaxRequestsCP == 2
MaxSecondsAT == 2
MaxTimeSend == 3
MaxTimeConn == 3
MaxTimeQueued == 5
MaxUses == 2
MaxExecutes == 3
MaxFetchesAT == 2

\* the options the instances under study are constructed with
failureThreshold == 2
resetTimeout == 2
halfOpenSuccessThreshold == 2
windowMs == 2
maxRequests == 2
maxSize == 2
maxRetries == 2
retryDelay == 1
maxConcurrentPlusOne == concurrency + 1
maxConcurrent == concurrency
timeout == 2

\* the code units strings are made of
CodeUnits == {97, 233}    \* "a", "\u00e9"

\* ---------------------------------------------------------------- helpers
NoTime == -1      \* null
None == "none"   \* undefined / no value

Max(a, b) == IF a >= b THEN a ELSE b

\* JavaScript truthiness of a number | null
Truthy(t) == t # NoTime /\ t # 0

\* ---------------------------------------------------------------- clock
InitClock == now = 1

\* ------------------------------------------------------- CircuitBreaker
InitCB ==
  /\ state = "closed"
  /\ failureCount = 0
  /\ lastFailureTime = NoTime
  /\ halfOpenSuccess = 0
  /\ inflight = 0
  /\ trials = 0
  /\ cbLast = [op |-> "new", from |-> "closed", admitted |-> FALSE, timeUntilReset |-> NoTime,
                fn |-> None, value |-> None]

\* this.lastFailureTime && Date.now() - this.lastFailureTime > this.resetTimeout
ResetElapsedLax(lft, t) == Truthy(lft) /\ t - lft >= resetTimeout
ResetElapsed(lft, t) == Truthy(lft) /\ t - lft > resetTimeout

\* getTimeUntilReset()
getTimeUntilReset(st, lft, t) ==
  IF st # "open" \/ ~Truthy(lft) THEN NoTime
  ELSE Max(0, resetTimeout - (t - lft))

\* the half-open transition of execute(): the new <<state, halfOpenSuccess>>
EnterHalfOpenKeepCount(hos) == <<"half-open", hos>>
EnterHalfOpen(hos) == <<"half-open", 0>>

\* the threshold test of onFailure()
ThresholdReachedStrict(fc) == fc > failureThreshold
ThresholdReached(fc) == fc >= failureThreshold

\* execute(fn) up to the first await: admission, then fn() is started
Execute ==
  IF state = "open"
  THEN IF ResetElapsed(lastFailureTime, now)
       THEN /\ inflight < MaxInflight
            /\ state' = EnterHalfOpen(halfOpenSuccess)[1]
            /\ halfOpenSuccess' = EnterHalfOpen(halfOpenSuccess)[2]
            /\ inflight' = inflight + 1
            /\ trials' = 1
            /\ cbLast' = [op |-> "execute", from |-> state, admitted |-> TRUE,
                          timeUntilReset |-> NoTime,
                fn |-> None, value |-> None]
            /\ UNCHANGED <<failureCount, lastFailureTime>>
       ELSE /\ cbLast' = [op |-> "execute", from |-> state, admitted |-> FALSE,
                          timeUntilReset |-> getTimeUntilReset(state, lastFailureTime, now),
                          fn |-> None, value |-> "CircuitBreakerOpenError"]
            /\ UNCHANGED <<state, failureCount, lastFailureTime, halfOpenSuccess, inflight,
                           trials>>
  ELSE /\ inflight < MaxInflight
       /\ inflight' = inflight + 1
       /\ trials' = IF state = "half-open" THEN trials + 1 ELSE trials
       /\ cbLast' = [op |-> "execute", from |-> state, admitted |-> TRUE,
                     timeUntilReset |-> NoTime,
                fn |-> None, value |-> None]
       /\ UNCHANGED <<state, failureCount, lastFailureTime, halfOpenSuccess>>

\* the function sendWorkWeixinMessage passes to execute(): getAccessToken(),
\* then the send request; each API answers with errcode 0, with another
\* errcode, or the request itself fails; the token may come from the cache
TokenAnswers == {"cached", "ok", "errcode", "network"}
SendAnswers == {"ok", "errcode", "network"}

SendFn(token, send) ==
  IF token = "network" THEN [ok |-> FALSE, value |-> "request failed"]
  ELSE IF token = "errcode" THEN [ok |-> FALSE, value |-> "Failed to get access token"]
  ELSE IF send = "network" THEN [ok |-> FALSE, value |-> "request failed"]
  ELSE IF send = "errcode" THEN [ok |-> FALSE, value |-> "Failed to send message"]
  ELSE [ok |-> TRUE, value |-> "success: true"]

\* the test of onSuccess() that ends the half-open trial
TrialDoneStrict(hos) == hos > halfOpenSuccessThreshold
TrialDone(hos) == hos >= halfOpenSuccessThreshold

\* return result
Return(result) == result

\* throw err
RethrowAsOpenError(err) == "CircuitBreakerOpenError"
Rethrow(err) == err

\* the state test of onSuccess(): this.state === "half-open"
InTrialOrOpen(st) == st # "closed"
InTrial(st) == st = "half-open"

\* the calls admitted since the breaker entered half-open, while it stays there
Trials(st, n) == IF st = "half-open" THEN n ELSE 0

\* fn() resolved: onSuccess(), with reset() inlined
FnResolves(result) ==
  /\ inflight > 0
  /\ inflight' = inflight - 1
  /\ IF InTrial(state) /\ TrialDone(halfOpenSuccess + 1)
     THEN /\ state' = "closed"
          /\ lastFailureTime' = NoTime
          /\ halfOpenSuccess' = 0
     ELSE /\ halfOpenSuccess' = IF InTrial(state) THEN halfOpenSuccess + 1
                                ELSE halfOpenSuccess
          /\ UNCHANGED <<state, lastFailureTime>>
  /\ failureCount' = 0
  /\ trials' = Trials(state', trials)
  /\ cbLast' = [op |-> "success", from |-> state, admitted |-> FALSE,
                timeUntilReset |-> NoTime,
                fn |-> result, value |-> Return(result)]

\* fn() rejected: onFailure(), the error is rethrown
FnRejects(err) ==
  /\ inflight > 0
  /\ inflight' = inflight - 1
  /\ failureCount' = failureCount + 1
  /\ lastFailureTime' = now
  /\ state' = IF state = "half-open" THEN "open"
              ELSE IF ThresholdReached(failureCount + 1) THEN "open"
              ELSE state
  /\ UNCHANGED halfOpenSuccess
  /\ trials' = Trials(state', trials)
  /\ cbLast' = [op |-> "failure", from |-> state, admitted |-> FALSE,
                timeUntilReset |-> NoTime,
                fn |-> err, value |-> Rethrow(err)]

\* reset()
Reset ==
  /\ state' = "closed"
  /\ failureCount' = 0
  /\ lastFailureTime' = NoTime
  /\ halfOpenSuccess' = 0
  /\ cbLast' = [op |-> "reset", from |-> state, admitted |-> FALSE,
                timeUntilReset |-> NoTime,
                fn |-> None, value |-> None]
  /\ trials' = 0
  /\ UNCHANGED inflight

\* trip()
Trip ==
  /\ state' = "open"
  /\ lastFailureTime' = now
  /\ cbLast' = [op |-> "trip", from |-> state, admitted |-> FALSE,
                timeUntilReset |-> NoTime,
                fn |-> None, value |-> None]
  /\ trials' = 0
  /\ UNCHANGED <<failureCount, halfOpenSuccess, inflight>>

\* the value of isAvailable()
AvailableLax(st, lft, t) ==
  IF st = "closed" THEN TRUE
  ELSE IF st = "half-open" THEN TRUE
  ELSE st = "open" /\ Truthy(lft) /\ t - lft >= resetTimeout
Available(st, lft, t) ==
  IF st = "closed" THEN TRUE
  ELSE IF st = "half-open" THEN TRUE
  ELSE st = "open" /\ Truthy(lft) /\ t - lft > resetTimeout

\* isAvailable()
IsAvailable ==
  /\ cbLast' = [op |-> "isAvailable", from |-> state, admitted |-> FALSE,
                timeUntilReset |-> NoTime, fn |-> None,
                value |-> IF Available(state, lastFailureTime, now) THEN "true" ELSE "false"]
  /\ UNCHANGED <<state, failureCount, lastFailureTime, halfOpenSuccess, inflight, trials>>

\* getState(): a copy of the four fields is returned
GetState ==
  /\ cbLast' = [op |-> "getState", from |-> state, admitted |-> FALSE,
                timeUntilReset |-> NoTime, fn |-> None, value |-> None]
  /\ UNCHANGED <<state, failureCount, lastFailureTime, halfOpenSuccess, inflight, trials>>

\* time passes between two CircuitBreaker operations
TickCB ==
  /\ now < MaxTime
  /\ now' = now + 1
  /\ cbLast' = [op |-> "tick", from |-> state, admitted |-> FALSE,
                timeUntilReset |-> NoTime,
                fn |-> None, value |-> None]
  /\ UNCHANGED <<state, failureCount, lastFailureTime, halfOpenSuccess, inflight, trials>>

\* ---------------------------------------------------------- RateLimiter
Keys == {"default", "acct"}

NoResult == [op |-> "new", key |-> "default", allowed |-> FALSE, remaining |-> 0, waitTime |-> 0]

NoDenial == [at |-> NoTime, waitTime |-> 0, admittedAt |-> NoTime]

InitRL ==
  /\ requests = [k \in {} |-> <<>>]
  /\ admitted = [k \in Keys |-> <<>>]
  /\ rlLast = NoResult
  /\ denial = [k \in Keys |-> NoDenial]

\* the filter of check(): (t) => t > windowStart
InWindowLate(t, windowStart) == t > windowStart + 1
InWindow(t, windowStart) == t > windowStart

\* the limit test of check(): count >= this.maxRequests
OverLimitStrict(count) == count > maxRequests
OverLimit(count) == count >= maxRequests

\* this.requests.get(key) after the has/set of check()
Stored(key) == IF key \in DOMAIN requests THEN requests[key] ELSE <<>>

\* this.requests.set(key, value)
MapSet(map, key, value) ==
  [k \in DOMAIN map \cup {key} |-> IF k = key THEN value ELSE map[k]]

\* const waitTime = oldest + this.windowMs - now
WaitTimeShort(oldest, t) == oldest + windowMs - t - 1
WaitTime(oldest, t) == oldest + windowMs - t

\* remaining: this.maxRequests - count - 1
RemainingBefore(count) == maxRequests - count
Remaining(count) == maxRequests - count - 1

\* check(key)
Check(key) ==
  LET windowStart == now - windowMs
      timestamps == SelectSeq(Stored(key), LAMBDA t : InWindow(t, windowStart))
      count == Len(timestamps)
  IN IF OverLimit(count)
     THEN /\ requests' = MapSet(requests, key, Stored(key))
          /\ rlLast' = [op |-> "check", key |-> key, allowed |-> FALSE, remaining |-> 0,
                        waitTime |-> WaitTime(timestamps[1], now)]
          /\ denial' = [denial EXCEPT ![key] =
                          [at |-> now, waitTime |-> WaitTime(timestamps[1], now),
                           admittedAt |-> NoTime]]
          /\ UNCHANGED admitted
     ELSE /\ requests' = MapSet(requests, key, Append(timestamps, now))
          /\ admitted' = [admitted EXCEPT ![key] = Append(@, now)]
          /\ rlLast' = [op |-> "check", key |-> key, allowed |-> TRUE,
                        remaining |-> Remaining(count), waitTime |-> 0]
          /\ denial' = [denial EXCEPT ![key].admittedAt =
                          IF denial[key].at # NoTime /\ @ = NoTime THEN now ELSE @]

\* cleanup()
CleanupRL ==
  LET windowStart == now - windowMs
      recent(k) == SelectSeq(requests[k], LAMBDA t : InWindow(t, windowStart))
      kept == {k \in DOMAIN requests : Len(recent(k)) # 0}
  IN /\ requests' = [k \in kept |-> recent(k)]
     /\ requests' # requests
     /\ rlLast' = [NoResult EXCEPT !.op = "cleanup"]
     /\ UNCHANGED <<admitted, denial>>

\* time passes between two RateLimiter operations
TickRL ==
  /\ now < MaxTimeRL
  /\ now' = now + 1
  /\ rlLast' = [NoResult EXCEPT !.op = "tick"]
  /\ UNCHANGED <<requests, admitted, denial>>

\* --------------------------------------------------------- RequestCache
CacheKeys == {"", "k1", "k2"}
Data == {"d1"}
TTLs == {1, 2}

InitRC ==
  /\ cache = <<>>
  /\ rcLast = [op |-> "new", key |-> None, ret |-> None]

\* the position of key in the map, 0 when absent
IndexOf(map, key) ==
  IF \E i \in DOMAIN map : map[i].key = key
  THEN CHOOSE i \in DOMAIN map : map[i].key = key
  ELSE 0

\* Map.delete(key)
MapDelete(map, key) == SelectSeq(map, LAMBDA e : e.key # key)

\* Date.now() > entry.expiresAt
ExpiredLate(e, t) == t > e.expiresAt + 1
Expired(e, t) == t > e.expiresAt

\* get(key)
Get(key) ==
  LET i == IndexOf(cache, key)
  IN IF i = 0
     THEN /\ rcLast' = [op |-> "get", key |-> key, ret |-> None]
          /\ UNCHANGED cache
     ELSE IF Expired(cache[i], now)
     THEN /\ cache' = MapDelete(cache, key)
          /\ rcLast' = [op |-> "get", key |-> key, ret |-> None]
     ELSE /\ cache[i].hitCount < MaxHits
          /\ cache' = [cache EXCEPT ![i].hitCount = @ + 1]
          /\ rcLast' = [op |-> "get", key |-> key, ret |-> cache[i].data]

\* the eviction loop of set(): the first entry in iteration order whose
\* hitCount is strictly below every earlier one, 0 for an empty map
MinKeyIndex(map) ==
  IF Len(map) = 0 THEN 0
  ELSE CHOOSE i \in DOMAIN map :
         /\ \A j \in DOMAIN map : map[i].hitCount <= map[j].hitCount
         /\ \A j \in 1..(i - 1) : map[j].hitCount > map[i].hitCount

\* if (minKey): JavaScript truthiness of a string | null, i the index of minKey
\* in the map and 0 for null
TruthyKey(map, i) == i # 0 /\ map[i].key # ""

\* set(key, data, ttl)
Set(key, data, ttl) ==
  LET m == MinKeyIndex(cache)
      kept == IF Len(cache) >= maxSize /\ TruthyKey(cache, m)
              THEN MapDelete(cache, cache[m].key) ELSE cache
      \* createdAt is written here and read nowhere: it is left out
      entry == [key |-> key, data |-> data, expiresAt |-> now + ttl, hitCount |-> 0]
      i == IndexOf(kept, key)
  IN /\ cache' = IF i = 0 THEN Append(kept, entry) ELSE [kept EXCEPT ![i] = entry]
     /\ rcLast' = [op |-> "set", key |-> key, ret |-> None, data |-> data, ttl |-> ttl]

\* has(key)
Has(key) ==
  LET i == IndexOf(cache, key)
  IN IF i = 0
     THEN /\ rcLast' = [op |-> "has", key |-> key, ret |-> "false"]
          /\ UNCHANGED cache
     ELSE IF Expired(cache[i], now)
     THEN /\ cache' = MapDelete(cache, key)
          /\ rcLast' = [op |-> "has", key |-> key, ret |-> "false"]
     ELSE /\ rcLast' = [op |-> "has", key |-> key, ret |-> "true"]
          /\ UNCHANGED cache

\* delete(key)
Delete(key) ==
  /\ cache' = MapDelete(cache, key)
  /\ rcLast' = [op |-> "delete", key |-> key,
                ret |-> IF IndexOf(cache, key) # 0 THEN "true" ELSE "false"]

\* cleanup()
CleanupRC ==
  /\ cache' = SelectSeq(cache, LAMBDA e : ~Expired(e, now))
  /\ rcLast' = [op |-> "cleanup", key |-> None, ret |-> None]

\* clear()
ClearRC ==
  /\ cache' = <<>>
  /\ rcLast' = [op |-> "clear", key |-> None, ret |-> None]

\* time passes between two RequestCache operations
TickRC ==
  /\ now < MaxTimeRC
  /\ now' = now + 1
  /\ rcLast' = [op |-> "tick", key |-> None, ret |-> None]
  /\ UNCHANGED cache

\* --------------------------------------------------------- MessageQueue
Items == 1..MaxItems
\* the process() calls that can be running at once: one more than the largest
\* maxConcurrent under study
Slots == 1..3
Errors == {"e1", "e2"}

Idle == [pc |-> "idle", item |-> 0, retries |-> 0, remaining |-> 0]

\* a process() call between two iterations of its loop: processItem returned
Looping == [pc |-> "loop", item |-> 0, retries |-> 0, remaining |-> 0]

Op(op, item, err, ret) == [op |-> op, item |-> item, err |-> err, ret |-> ret]

\* new MessageQueue({ maxConcurrent: n })
InitQueue(n) ==
  /\ concurrency = n
  /\ queue = <<>>
  /\ itemRetries = [i \in Items |-> 0]
  /\ processing = 0
  /\ failed = <<>>
  /\ stats = [total |-> 0, success |-> 0, failed |-> 0, retries |-> 0]
  /\ idCounter = 0
  /\ workers = [w \in Slots |-> Idle]
  /\ attempts = [i \in Items |-> 0]
  /\ settled = [i \in Items |-> "none"]
  /\ draining = FALSE
  /\ mqLast = Op("new", 0, None, 0)

InitMQ == InitQueue(2)

RECURSIVE Pow2(_)
Pow2(n) == IF n = 0 THEN 1 ELSE 2 * Pow2(n - 1)

\* the retry test of processItem(): retries < this.maxRetries
CanRetryLax(retries) == retries <= maxRetries
CanRetry(retries) == retries < maxRetries

\* this.retryDelay * Math.pow(2, retries)
BackoffAfterIncrement(retries) == retryDelay * Pow2(retries + 1)
Backoff(retries) == retryDelay * Pow2(retries)

\* process() from its first line, and its while loop from the loop test, up to
\* the await of sendFn or the return: the queue and the counter it leaves, and
\* the item whose sendFn it has called (0 when it returned)
RECURSIVE Process(_, _), Loop(_, _)
Process(q, p) ==
  IF p >= maxConcurrent \/ Len(q) = 0
  THEN [queue |-> q, processing |-> p, item |-> 0]
  ELSE Loop(q, p + 1)
Loop(q, p) ==
  IF Len(q) > 0 /\ p <= maxConcurrent
  THEN [queue |-> Tail(q), processing |-> p, item |-> Head(q)]
  ELSE IF Len(q) > 0
       THEN Process(q, p - 1)
       ELSE [queue |-> q, processing |-> p - 1, item |-> 0]

\* processItem(item) up to the await of sendFn, in the process() call of slot w
Run(w, r) ==
  /\ queue' = r.queue
  /\ processing' = r.processing
  /\ workers' = [workers EXCEPT ![w] =
                   IF r.item = 0 THEN Idle
                   ELSE [pc |-> "sending", item |-> r.item,
                         retries |-> itemRetries'[r.item], remaining |-> 0]]
  /\ attempts' = IF r.item = 0 THEN attempts
                 ELSE [attempts EXCEPT ![r.item] = @ + 1]

FreeSlot == CHOOSE w \in Slots : workers[w].pc = "idle"

\* this.stats.total++
CountTotalMissed(st) == st
CountTotal(st) == [st EXCEPT !.total = @ + 1]

\* add(message, sendFn), with the process() call it makes
Add ==
  /\ idCounter < MaxItems
  /\ \E w \in Slots : workers[w].pc = "idle"
  /\ idCounter' = idCounter + 1
  /\ stats' = CountTotal(stats)
  /\ mqLast' = Op("add", idCounter + 1, None, idCounter + 1)
  /\ UNCHANGED <<itemRetries, failed, settled, draining>>
  /\ Run(FreeSlot, Process(Append(queue, idCounter + 1), processing))

\* this.stats.success++
CountSuccessAsTotal(st) == [st EXCEPT !.total = @ + 1]
CountSuccess(st) == [st EXCEPT !.success = @ + 1]

\* sendFn resolved: processItem returns
SendResolves(w) ==
  /\ workers[w].pc = "sending"
  /\ stats' = CountSuccess(stats)
  /\ workers' = [workers EXCEPT ![w] = Looping]
  /\ settled' = [settled EXCEPT ![workers[w].item] = "success"]
  /\ mqLast' = Op("resolved", workers[w].item, None, 0)
  /\ UNCHANGED <<queue, itemRetries, processing, failed, idCounter, attempts, draining>>

\* err instanceof Error ? err.message : String(err)
CapturedFixed(err) == "Error"
Captured(err) == err

\* sendFn rejected with err: the catch block of processItem up to its await or
\* its return
SendRejects(w, err) ==
  LET item == workers[w].item
      retries == workers[w].retries
  IN /\ workers[w].pc = "sending"
     /\ IF CanRetry(retries)
        THEN /\ itemRetries' = [itemRetries EXCEPT ![item] = @ + 1]
             /\ stats' = [stats EXCEPT !.retries = @ + 1]
             /\ workers' = [workers EXCEPT ![w].pc = "backoff",
                                           ![w].remaining = Backoff(retries)]
             /\ UNCHANGED <<failed, settled>>
        ELSE /\ stats' = [stats EXCEPT !.failed = @ + 1]
             /\ failed' = Append(failed, [id |-> item, error |-> Captured(err),
                                          retries |-> itemRetries[item]])
             /\ workers' = [workers EXCEPT ![w] = Looping]
             /\ settled' = [settled EXCEPT ![item] = "failed"]
             /\ UNCHANGED itemRetries
     /\ mqLast' = Op("rejected", item, err, 0)
     /\ UNCHANGED <<queue, processing, idCounter, attempts, draining>>

\* this.queue.unshift(item)
UnshiftLast(q, item) == Append(q, item)
UnshiftDropped(q, item) == q
Unshift(q, item) == <<item>> \o q

\* the position of item in q, 0 when it is not there
Position(q, item) ==
  IF \E k \in 1..Len(q) : q[k] = item
  THEN CHOOSE k \in 1..Len(q) : q[k] = item /\ \A j \in 1..(k - 1) : q[j] # item
  ELSE 0

\* the backoff timer fired: the item goes back to the head of the queue,
\* processItem returns and, in the same turn of the event loop, the while loop
\* of the process() call that was waiting tests the queue again.  The result
\* of the step records the position the item was put at.
BackoffEnds(w) ==
  /\ workers[w].pc = "backoff"
  /\ workers[w].remaining = 0
  /\ mqLast' = Op("timer", workers[w].item, None,
                  Position(Unshift(queue, workers[w].item), workers[w].item))
  /\ UNCHANGED <<itemRetries, failed, stats, idCounter, settled, draining>>
  /\ Run(w, Loop(Unshift(queue, workers[w].item), processing))

\* process() resumes after await this.processItem(item)
Resume(w) ==
  /\ workers[w].pc = "loop"
  /\ mqLast' = Op("resume", 0, None, 0)
  /\ UNCHANGED <<itemRetries, failed, stats, idCounter, settled, draining>>
  /\ Run(w, Loop(queue, processing))

\* clear()
Clear ==
  /\ queue # <<>>
  /\ queue' = <<>>
  /\ mqLast' = Op("clear", 0, None, 0)
  /\ UNCHANGED <<itemRetries, processing, failed, stats, idCounter, workers, attempts,
                 settled, draining>>

\* the loop of retryFailed(): retried++ for every copied entry
RetriedNone(items) == 0
Retried(items) == Len(items)

\* retryFailed(): the ledger is emptied and the number of its entries returned
RetryFailed ==
  /\ failed' = <<>>
  /\ mqLast' = Op("retryFailed", 0, None, Retried(failed))
  /\ UNCHANGED <<queue, itemRetries, processing, stats, idCounter, workers, attempts,
                 settled, draining>>

\* clearFailed()
ClearFailed ==
  /\ failed' = <<>>
  /\ mqLast' = Op("clearFailed", 0, None, 0)
  /\ UNCHANGED <<queue, itemRetries, processing, stats, idCounter, workers, attempts,
                 settled, draining>>

\* isEmpty()
isEmpty == Len(queue) = 0 /\ processing = 0

\* drain() up to its first await or its return
Drain ==
  /\ ~draining
  /\ draining' = ~isEmpty
  /\ mqLast' = Op("drain", 0, None, 0)
  /\ UNCHANGED <<queue, itemRetries, processing, failed, stats, idCounter, workers,
                 attempts, settled>>

\* the poll timer of drain() fired: the loop test again
DrainPoll ==
  /\ draining
  /\ draining' = ~isEmpty
  /\ mqLast' = Op("poll", 0, None, 0)
  /\ UNCHANGED <<queue, itemRetries, processing, failed, stats, idCounter, workers,
                 attempts, settled>>

\* one time unit of the pending backoff timers passes
TickMQ ==
  /\ \E w \in Slots : workers[w].pc = "backoff" /\ workers[w].remaining > 0
  /\ workers' = [w \in Slots |->
                   IF workers[w].pc = "backoff" /\ workers[w].remaining > 0
                   THEN [workers[w] EXCEPT !.remaining = @ - 1]
                   ELSE workers[w]]
  /\ mqLast' = Op("tick", 0, None, 0)
  /\ UNCHANGED <<queue, itemRetries, processing, failed, stats, idCounter, attempts,
                 settled, draining>>

\* --------------------------------------------------- HttpConnectionPool
\* options.timeout of a request() call: absent (NoTime) or a number of
\* milliseconds
TimeoutOptions == {NoTime, 0, 1, 3}

\* the ways fetch rejects by itself
FetchErrors == {"TypeError"}

RECURSIVE Gcd(_, _)
Gcd(a, b) == IF b = 0 THEN a ELSE Gcd(b, a % b)

\* a number as a fraction in lowest terms
Frac(num, den) ==
  LET g == Gcd(num, den)
  IN IF num = 0 THEN [num |-> 0, den |-> 1] ELSE [num |-> num \div g, den |-> den \div g]

InitCP ==
  /\ cpStats = [totalRequests |-> 0, successfulRequests |-> 0, failedRequests |-> 0,
                avgResponseTime |-> Frac(0, 1)]
  /\ cpReqs = <<>>
  /\ cpTimers = {}
  /\ cpLast = [op |-> "new", id |-> 0, elapsed |-> 0, pending |-> FALSE, error |-> None]

\* options.timeout ?? this.timeout
Delay(option) == IF option = NoTime THEN timeout ELSE option

\* clearTimeout(timeoutId)
ClearTimeoutMissed(timers, id) == timers
ClearTimeout(timers, id) == timers \ {id}

\* updateAvgResponseTime(newTime), called before successfulRequests++
UpdateAvgResponseTime(st, newTime) ==
  LET total == st.successfulRequests
      avg == st.avgResponseTime
  IN IF total = 0 THEN Frac(newTime, 1)
     ELSE Frac(avg.num * (total - 1) + newTime * avg.den, avg.den * total)

\* request(url, options) up to await fetch(...): the call is counted, the abort
\* timer set and fetch started
Request(option) ==
  /\ Len(cpReqs) < MaxRequestsCP
  /\ cpStats' = [cpStats EXCEPT !.totalRequests = @ + 1]
  /\ cpReqs' = Append(cpReqs, [pc |-> "fetching", startTime |-> now,
                               option |-> option, delay |-> Delay(option),
                               responseTime |-> NoTime])
  /\ cpTimers' = cpTimers \cup {Len(cpReqs) + 1}
  /\ cpLast' = [op |-> "request", id |-> Len(cpReqs) + 1, elapsed |-> 0,
                pending |-> TRUE, error |-> None]

\* fetch resolved: the timer is cleared, the latency averaged, the call counted
FetchResolves(id) ==
  /\ cpReqs[id].pc = "fetching"
  /\ cpTimers' = ClearTimeout(cpTimers, id)
  /\ cpStats' = [cpStats EXCEPT
                   !.avgResponseTime =
                     UpdateAvgResponseTime(cpStats, now - cpReqs[id].startTime),
                   !.successfulRequests = @ + 1]
  /\ cpReqs' = [cpReqs EXCEPT ![id].pc = "resolved",
                               ![id].responseTime = now - cpReqs[id].startTime]
  /\ cpLast' = [op |-> "resolved", id |-> id, elapsed |-> now - cpReqs[id].startTime,
                pending |-> TRUE, error |-> None]

\* fetch rejected, by itself or with AbortError once its signal was aborted:
\* the timer is cleared, the failure counted and the error rethrown
FetchRejects(id, err) ==
  /\ \/ cpReqs[id].pc = "fetching" /\ err \in FetchErrors
     \/ cpReqs[id].pc = "aborted" /\ err = "AbortError"
  /\ cpTimers' = ClearTimeout(cpTimers, id)
  /\ cpStats' = [cpStats EXCEPT !.failedRequests = @ + 1]
  /\ cpReqs' = [cpReqs EXCEPT ![id].pc = "rejected"]
  /\ cpLast' = [op |-> "rejected", id |-> id, elapsed |-> now - cpReqs[id].startTime,
                pending |-> TRUE, error |-> err]

\* the timer of a call comes due: controller.abort(), which makes a fetch
\* that is still pending reject
TimerFires(id) ==
  /\ id \in cpTimers
  /\ now >= cpReqs[id].startTime + cpReqs[id].delay
  /\ cpTimers' = cpTimers \ {id}
  /\ cpReqs' = [cpReqs EXCEPT
                  ![id].pc = IF @ = "fetching" THEN "aborted" ELSE @]
  /\ cpLast' = [op |-> "abort", id |-> id, elapsed |-> now - cpReqs[id].startTime,
                pending |-> cpReqs[id].pc = "fetching", error |-> None]
  /\ UNCHANGED cpStats

\* time passes once the timers that are due have fired and the aborted
\* fetches have rejected
TickCP ==
  /\ now < MaxTimeCP
  /\ \A id \in cpTimers : now < cpReqs[id].startTime + cpReqs[id].delay
  /\ \A id \in 1..Len(cpReqs) : cpReqs[id].pc # "aborted"
  /\ now' = now + 1
  /\ cpLast' = [op |-> "tick", id |-> 0, elapsed |-> 0, pending |-> FALSE, error |-> None]
  /\ UNCHANGED <<cpStats, cpReqs, cpTimers>>

\* ------------------------------------------------------- getAccessToken
CorpIdsAT == {"corpA", "corpB"}

\* the gettoken answers: errcode, and expires_in in seconds
Errcodes == {0, 40013}
ExpiresIn == {119, 120, 121}

\* the instants at which the clock is read, in milliseconds: the first two
\* of every second
Instants == {1000 * sec + ms : sec \in 0..MaxSecondsAT, ms \in 1..2}

\* requestCache.generateKey("GET", "/cgi-bin/gettoken", { corpId })
GenerateKey(method, url, corpId) == <<method, ":", url, "?", "corpId=", corpId>>
CacheKey(corpId) == GenerateKey("GET", "/cgi-bin/gettoken", corpId)

NotStored == [token |-> 0, at |-> NoTime, expiresIn |-> 0]

InitAT ==
  /\ atPending = [c \in CorpIdsAT |-> 0]
  /\ atIssued = 0
  /\ atStored = [c \in CorpIdsAT |-> NotStored]
  /\ atLast = [op |-> "new", corpId |-> None, network |-> FALSE, threw |-> FALSE,
                token |-> 0]

\* const ttl = (data.expires_in! - 120) * 1000
TtlNoMargin(expires_in) == expires_in * 1000
Ttl(expires_in) == (expires_in - 120) * 1000

\* requestCache.get(cacheKey) returns an entry
Cached(corpId) ==
  LET i == IndexOf(cache, CacheKey(corpId))
  IN i # 0 /\ ~Expired(cache[i], now)

\* getAccessToken(corpId, corpSecret) up to its return of the cached token or
\* to await connectionPool.request(url)
GetAccessToken(corpId) ==
  /\ Cached(corpId) \/ atIssued < MaxFetchesAT
  /\ Get(CacheKey(corpId))
  /\ IF Cached(corpId)
     THEN /\ atLast' = [op |-> "cached", corpId |-> corpId, network |-> FALSE,
                        threw |-> FALSE,
                        token |-> cache[IndexOf(cache, CacheKey(corpId))].data.accessToken]
          /\ UNCHANGED <<atPending, atIssued>>
     ELSE /\ atPending' = [atPending EXCEPT ![corpId] = @ + 1]
          /\ atIssued' = atIssued + 1
          /\ atLast' = [op |-> "request", corpId |-> corpId, network |-> TRUE,
                        threw |-> FALSE, token |-> 0]
  /\ UNCHANGED atStored

\* the gettoken response arrived: a non-zero errcode throws, otherwise the
\* token is cached and returned
TokenResponse(corpId, errcode, expires_in) ==
  /\ atPending[corpId] > 0
  /\ atPending' = [atPending EXCEPT ![corpId] = @ - 1]
  /\ IF errcode # 0
     THEN /\ atLast' = [op |-> "response", corpId |-> corpId, network |-> TRUE,
                        threw |-> TRUE, token |-> 0]
          /\ UNCHANGED <<cache, rcLast, atStored>>
     ELSE /\ Set(CacheKey(corpId),
                 [accessToken |-> atIssued, expiresIn |-> expires_in], Ttl(expires_in))
          /\ atStored' = [atStored EXCEPT
                            ![corpId] = [token |-> atIssued, at |-> now,
                                         expiresIn |-> expires_in]]
          /\ atLast' = [op |-> "response", corpId |-> corpId, network |-> TRUE,
                        threw |-> FALSE, token |-> atIssued]
  /\ UNCHANGED atIssued

\* connectionPool.request or response.json() rejected: the error propagates
TokenRequestFails(corpId) ==
  /\ atPending[corpId] > 0
  /\ atPending' = [atPending EXCEPT ![corpId] = @ - 1]
  /\ atLast' = [op |-> "failed", corpId |-> corpId, network |-> TRUE,
                threw |-> TRUE, token |-> 0]
  /\ UNCHANGED <<cache, rcLast, atStored, atIssued>>

\* time passes, to a later instant
TickAT ==
  /\ \E t \in Instants : t > now /\ now' = t
  /\ atLast' = [op |-> "tick", corpId |-> None, network |-> FALSE, threw |-> FALSE,
                token |-> 0]
  /\ UNCHANGED <<cache, rcLast, atPending, atIssued, atStored>>

\* ------------------------------------------ HttpConnectionPool registry
ConnKeys == {"", "a.example", "b.example"}
MaxAges == {0, 1}

\* options.maxConnections
maxConnections == 2

InitConn ==
  /\ connections = <<>>
  /\ connLast = [op |-> "new", key |-> None, ret |-> None]

\* this.connections.keys().next().value: the index of the first key, 0 for
\* undefined
Oldest(map) == IF Len(map) = 0 THEN 0 ELSE 1

\* useCount++ and lastUsed = Date.now() on the entry returned
Touch(conn, t) == [conn EXCEPT !.lastUsed = t, !.useCount = @ + 1]

\* getConnection(key)
GetConnection(key) ==
  LET o == Oldest(connections)
      kept == IF Len(connections) >= maxConnections /\ TruthyKey(connections, o)
              THEN MapDelete(connections, connections[o].key) ELSE connections
      created == [key |-> key, createdAt |-> now, lastUsed |-> now, useCount |-> 0]
      map == IF IndexOf(connections, key) = 0 THEN Append(kept, created) ELSE connections
      i == IndexOf(map, key)
  IN /\ map[i].useCount < MaxUses
     /\ connections' = [map EXCEPT ![i] = Touch(map[i], now)]
     /\ connLast' = [op |-> "getConnection", key |-> key, ret |-> Touch(map[i], now)]

\* cleanup(maxAge)
CleanupConn(maxAge) ==
  /\ connections' = SelectSeq(connections, LAMBDA conn : ~(now - conn.lastUsed > maxAge))
  /\ connections' # connections
  /\ connLast' = [op |-> "cleanup", key |-> None, ret |-> None]

\* clear()
ClearConn ==
  /\ connections # <<>>
  /\ connections' = <<>>
  /\ connLast' = [op |-> "clear", key |-> None, ret |-> None]

\* time passes between two registry operations
TickConn ==
  /\ now < MaxTimeConn
  /\ now' = now + 1
  /\ connLast' = [op |-> "tick", key |-> None, ret |-> None]
  /\ UNCHANGED connections

\* ------------------------------- sendWorkWeixinMessage and waitForSlot
Callers == 1..2

\* the accountId of the sends: options?.accountId || "default"
AccountIds == {"default"}

Returned0 == [pc |-> "idle", kind |-> None, key |-> None, deniedAt |-> NoTime,
              waitTime |-> 0, wakeAt |-> NoTime]

InitSend ==
  /\ callers = [c \in Callers |-> Returned0]
  /\ executes = [k \in Keys |-> 0]
  /\ sendLast = [op |-> "new", caller |-> 0, key |-> None]

\* the test before the sleep of sendWorkWeixinMessage:
\* !rateCheck.allowed, then rateCheck.waitTime && rateCheck.waitTime > 0
MustWait(result) == ~result.allowed /\ result.waitTime # 0 /\ result.waitTime > 0

\* the test before the sleep of waitForSlot: !result.allowed && result.waitTime
MustWaitForSlot(result) == ~result.allowed /\ result.waitTime # 0

\* setTimeout(resolve, waitTime): the instant the timer is due
WakeAtOnce(t, waitTime) == t
WakeAt(t, waitTime) == t + waitTime

Suspended(kind, key, result) ==
  [pc |-> "waiting", kind |-> kind, key |-> key, deniedAt |-> now,
   waitTime |-> result.waitTime, wakeAt |-> WakeAt(now, result.waitTime)]

\* return circuitBreaker.execute(async () => {...}): the call of execute, up
\* to its first await
CallExecute(key) ==
  /\ executes[key] < MaxExecutes
  /\ executes' = [executes EXCEPT ![key] = @ + 1]
  /\ Execute

\* sendWorkWeixinMessage(toUser, content, config, { accountId }) up to its
\* sleep or, when there is none, to the first await of execute
SendMessage(c, accountId) ==
  /\ callers[c].pc = "idle"
  /\ Check(accountId)
  /\ IF MustWait(rlLast')
     THEN /\ callers' = [callers EXCEPT ![c] = Suspended("send", accountId, rlLast')]
          /\ UNCHANGED <<cbVars, executes>>
     ELSE /\ CallExecute(accountId)
          /\ UNCHANGED callers
  /\ sendLast' = [op |-> "send", caller |-> c, key |-> accountId]

\* the sleep of sendWorkWeixinMessage is over: execute is called
SendWakes(c) ==
  /\ callers[c].pc = "waiting" /\ callers[c].kind = "send"
  /\ now >= callers[c].wakeAt
  /\ CallExecute(callers[c].key)
  /\ callers' = [callers EXCEPT ![c] = Returned0]
  /\ sendLast' = [op |-> "send wakes", caller |-> c, key |-> callers[c].key]
  /\ UNCHANGED rlVars

\* waitForSlot(key) up to its sleep or its return
WaitForSlot(c, key) ==
  /\ callers[c].pc = "idle"
  /\ Check(key)
  /\ callers' = [callers EXCEPT ![c] =
                   IF MustWaitForSlot(rlLast') THEN Suspended("waitForSlot", key, rlLast')
                   ELSE Returned0]
  /\ sendLast' = [op |-> "waitForSlot", caller |-> c, key |-> key]
  /\ UNCHANGED <<cbVars, executes>>

\* the sleep of waitForSlot is over: it returns
SlotWakes(c) ==
  /\ callers[c].pc = "waiting" /\ callers[c].kind = "waitForSlot"
  /\ now >= callers[c].wakeAt
  /\ callers' = [callers EXCEPT ![c] = Returned0]
  /\ sendLast' = [op |-> "slot wakes", caller |-> c, key |-> callers[c].key]
  /\ UNCHANGED <<rlVars, cbVars, executes>>

\* the function passed to execute settled
SendSettles(ok) ==
  /\ IF ok THEN FnResolves(SendFn("cached", "ok").value)
     ELSE FnRejects(SendFn("cached", "errcode").value)
  /\ sendLast' = [op |-> "settled", caller |-> 0, key |-> None]
  /\ UNCHANGED <<rlVars, callers, executes>>

\* time passes once the sleeps that are due have ended
TickSend ==
  /\ now < MaxTimeSend
  /\ \A c \in Callers : callers[c].pc = "waiting" => now < callers[c].wakeAt
  /\ now' = now + 1
  /\ sendLast' = [op |-> "tick", caller |-> 0, key |-> None]
  /\ UNCHANGED <<rlVars, cbVars, callers, executes>>

\* -------------------------------------------- sendWorkWeixinMessageQueued
InitQueued ==
  /\ executed = {}
  /\ fnCalls = [i \in Items |-> 0]

\* new CircuitBreakerOpenError("Circuit breaker is open", ...): its message
OpenErrorMessage == "Circuit breaker is open"

\* the errors the function passed to execute() rejects with
SendErrors == {"Failed to send message"}

\* the sendFn of the item of slot w reaches circuitBreaker.execute, after the
\* rate check and the sleep it may have caused: either fn is started, or
\* CircuitBreakerOpenError rejects sendFn and the catch block of processItem runs
QueuedExecute(w) ==
  /\ workers[w].pc = "sending"
  /\ w \notin executed
  /\ Execute
  /\ IF cbLast'.admitted
     THEN /\ executed' = executed \cup {w}
          /\ fnCalls' = [fnCalls EXCEPT ![workers[w].item] = @ + 1]
          /\ UNCHANGED mqVars
     ELSE /\ SendRejects(w, OpenErrorMessage)
          /\ UNCHANGED <<executed, fnCalls>>

\* the requests of a send succeeded: onSuccess(), then sendFn resolves
QueuedResolves(w) ==
  /\ w \in executed
  /\ FnResolves(SendFn("cached", "ok").value)
  /\ SendResolves(w)
  /\ executed' = executed \ {w}
  /\ UNCHANGED fnCalls

\* the requests of a send failed: onFailure(), then sendFn rejects
QueuedRejects(w, err) ==
  /\ w \in executed
  /\ FnRejects(err)
  /\ SendRejects(w, err)
  /\ executed' = executed \ {w}
  /\ UNCHANGED fnCalls

\* time passes once the backoff timers that are due have fired
TickQueued ==
  /\ now < MaxTimeQueued
  /\ \A w \in Slots : workers[w].pc = "backoff" => workers[w].remaining > 0
  /\ now' = now + 1
  /\ workers' = [w \in Slots |->
                   IF workers[w].pc = "backoff"
                   THEN [workers[w] EXCEPT !.remaining = @ - 1]
                   ELSE workers[w]]
  /\ mqLast' = Op("tick", 0, None, 0)
  /\ UNCHANGED <<queue, itemRetries, processing, failed, stats, idCounter, attempts,
                 settled, draining>>

\* ------------------------------------------------------ webhook handler
Methods == {"GET", "POST", "PUT"}
Plaintexts == {"p1", "p2"}
Secrets == {"s1", "s2"}

\* A request, described by what each call of the handler evaluates to on it:
\*   fault           getWorkWeixinRuntime / loadConfig / new URL throws
\*   secret          the configured token and encodingAESKey values
\*   token, encodingAESKey   the configured values are truthy
\*   sigOk           verifySignature(token, timestamp, nonce, payload, msg_signature)
\*   plain           decryptMessage(encodingAESKey, payload): a text, or "throws"
\*   read            readRequestBody(req): "ok" or "error" (the promise rejects)
\*   outer           parser.parse(body)?.xml?.Encrypt: "throws", "absent", "present"
\*   parsed          parseWxMessage(decryptedXml) is not null
\*   MsgType, Content   wxMsg.MsgType, and whether wxMsg.Content is truthy
\*   route           resolveAgentRoute / finalizeInboundContext: "ok" or "throws"
\* The fields read only on the POST path are fixed for the other methods.
Requests ==
  { r \in [method : Methods, fault : BOOLEAN, secret : Secrets,
           token : BOOLEAN, encodingAESKey : BOOLEAN,
           sigOk : BOOLEAN, plain : Plaintexts \cup {"throws"},
           read : {"ok", "error"}, outer : {"throws", "absent", "present"},
           parsed : BOOLEAN, MsgType : {"text", "image"}, Content : BOOLEAN,
           route : {"ok", "throws"}] :
      r.method # "POST" =>
        /\ r.read = "ok" /\ r.outer = "present" /\ r.parsed
        /\ r.MsgType = "text" /\ r.Content /\ r.route = "ok" }

NoRequest ==
  [method |-> "GET", fault |-> FALSE, secret |-> "s1",
   token |-> TRUE, encodingAESKey |-> TRUE,
   sigOk |-> TRUE, plain |-> "p1", read |-> "ok", outer |-> "present",
   parsed |-> TRUE, MsgType |-> "text", Content |-> TRUE, route |-> "ok"]

\* res.statusCode = status; res.end(body)
Respond(status, body) == [statusCode |-> status, body |-> body, dispatch |-> FALSE]
NoResponse == Respond(0, None)
\* the body of the catch-all: err.message is logged, a fixed text is sent
ErrorBodyLeaks(errMsg) == errMsg
ErrorBody(errMsg) == "Internal error"
InternalError == Respond(500, ErrorBody("err.message"))
Success == Respond(200, "success")

\* the calls of verifySignature and decryptMessage the handler makes
NoCalls == [verifySignature |-> 0, decryptMessage |-> 0]
Calls(verified, decrypted) ==
  [verifySignature |-> IF verified THEN 1 ELSE 0,
   decryptMessage |-> IF decrypted THEN 1 ELSE 0]

InitH ==
  /\ req = NoRequest
  /\ hpc = "idle"
  /\ res = NoResponse
  /\ calls = NoCalls
  /\ dispatched = 0
  /\ dispatchResult = None

\* the GET branch of the handler
GetResponseLenient(r) ==
  IF ~r.token \/ ~r.encodingAESKey THEN Respond(500, "WorkWeixin not configured")
  ELSE IF ~r.sigOk THEN Respond(401, "Signature verification failed")
  ELSE IF r.plain # "throws" THEN Respond(200, r.plain)
  ELSE Respond(200, "Decryption failed")
GetResponse(r) ==
  IF ~r.token \/ ~r.encodingAESKey THEN Respond(500, "WorkWeixin not configured")
  ELSE IF ~r.sigOk THEN Respond(401, "Signature verification failed")
  ELSE IF r.plain # "throws" THEN Respond(200, r.plain)
  ELSE Respond(500, "Decryption failed")

\* the calls of the GET branch: the signature is verified once the
\* configuration is present, the echostr decrypted once the signature matched
GetCalls(r) ==
  Calls(r.token /\ r.encodingAESKey, r.token /\ r.encodingAESKey /\ r.sigOk)

\* req.method === "GET"
IsGetOrOther(r) == r.method # "POST"
IsGet(r) == r.method = "GET"

\* wxMsg.MsgType !== "text" || !wxMsg.Content
IgnoredAnyText(r) == r.MsgType # "text"
Ignored(r) == r.MsgType # "text" \/ ~r.Content

\* the POST branch from the settling of readRequestBody to the dispatch call:
\* the response given, or dispatch when the dispatcher is called first
PostResponse(r) ==
  IF r.read = "error" THEN InternalError
  ELSE IF r.outer = "throws" THEN InternalError
  ELSE IF r.outer = "absent" THEN Success
  ELSE IF ~r.sigOk THEN Success
  ELSE IF r.plain = "throws" THEN Success
  ELSE IF ~r.parsed THEN Success
  ELSE IF Ignored(r) THEN Success
  ELSE IF r.route = "throws" THEN InternalError
  ELSE [NoResponse EXCEPT !.dispatch = TRUE]

\* the calls of the POST branch after readRequestBody: Encrypt is verified once
\* it is present, and decrypted once its signature matched
PostCalls(r) ==
  Calls(r.read = "ok" /\ r.outer = "present",
        r.read = "ok" /\ r.outer = "present" /\ r.sigOk)

\* the response after the dispatch call settled: a rejection is caught and logged
AfterDispatchRethrow(outcome) == IF outcome = "throws" THEN InternalError ELSE Success
AfterDispatch(outcome) == Success

\* the response of the handler to request r when its dispatch call, if any,
\* settles with outcome
HandlerResponse(r, outcome) ==
  IF r.fault THEN InternalError
  ELSE IF IsGet(r) THEN GetResponse(r)
  ELSE IF r.method = "POST"
  THEN IF ~r.token \/ ~r.encodingAESKey THEN Success
       ELSE IF PostResponse(r).dispatch THEN AfterDispatch(outcome)
       ELSE PostResponse(r)
  ELSE Respond(405, "Method not allowed")

\* the handler is called with a request and runs to its first await or return
Receive(r) ==
  /\ hpc = "idle"
  /\ req' = r
  /\ IF r.fault THEN res' = InternalError /\ hpc' = "done" /\ calls' = NoCalls
     ELSE IF IsGet(r)
     THEN res' = GetResponse(r) /\ hpc' = "done" /\ calls' = GetCalls(r)
     ELSE IF r.method = "POST"
     THEN /\ calls' = NoCalls
          /\ IF ~r.token \/ ~r.encodingAESKey
             THEN res' = Success /\ hpc' = "done"
             ELSE res' = NoResponse /\ hpc' = "reading"
     ELSE res' = Respond(405, "Method not allowed") /\ hpc' = "done" /\ calls' = NoCalls
  /\ UNCHANGED <<dispatched, dispatchResult>>

\* readRequestBody settled: the handler runs to the dispatch call or a return
BodyArrives ==
  /\ hpc = "reading"
  /\ IF PostResponse(req).dispatch
     THEN /\ dispatched' = dispatched + 1
          /\ hpc' = "dispatching"
          /\ UNCHANGED res
     ELSE /\ res' = PostResponse(req)
          /\ hpc' = "done"
          /\ UNCHANGED dispatched
  /\ calls' = PostCalls(req)
  /\ UNCHANGED <<req, dispatchResult>>

\* the dispatch call settled
DispatchSettles(outcome) ==
  /\ hpc = "dispatching"
  /\ dispatchResult' = outcome
  /\ res' = AfterDispatch(outcome)
  /\ hpc' = "done"
  /\ UNCHANGED <<req, calls, dispatched>>

\* the handler returned; the next request finds no state of this one
Returned ==
  /\ hpc = "done"
  /\ req' = NoRequest
  /\ hpc' = "idle"
  /\ res' = NoResponse
  /\ calls' = NoCalls
  /\ dispatched' = 0
  /\ dispatchResult' = None

\* ------------------------------------ verifySignature and decryptMessage
\* strings are sequences of UTF-16 code units, buffers sequences of bytes
RECURSIVE Strings(_)
Strings(n) ==
  IF n = 0 THEN {<<>>}
  ELSE Strings(n - 1) \cup {Append(str, c) : str \in Strings(n - 1), c \in CodeUnits}

\* the comparison of the default Array.prototype.sort: by code units, a proper
\* prefix first
RECURSIVE LexLeq(_, _)
LexLeq(a, b) ==
  IF a = <<>> THEN TRUE
  ELSE IF b = <<>> THEN FALSE
  ELSE IF Head(a) # Head(b) THEN Head(a) < Head(b)
  ELSE LexLeq(Tail(a), Tail(b))

RECURSIVE Insert(_, _)
Insert(x, sorted) ==
  IF sorted = <<>> THEN <<x>>
  ELSE IF LexLeq(x, Head(sorted)) THEN <<x>> \o sorted
  ELSE <<Head(sorted)>> \o Insert(x, Tail(sorted))

RECURSIVE InsertionSort(_)
InsertionSort(arr) ==
  IF arr = <<>> THEN <<>> ELSE Insert(Head(arr), InsertionSort(Tail(arr)))

\* [token, timestamp, nonce, echostr].sort()
SortSkipped(arr) == arr
Sort(arr) == InsertionSort(arr)

\* sorted.join("")
RECURSIVE Join(_)
Join(arr) == IF arr = <<>> THEN <<>> ELSE Head(arr) \o Join(Tail(arr))

\* crypto.createHash("sha1").update(str).digest("hex"): the digest of str, two
\* strings having the same digest only when they are equal
Sha1Hex(str) == [sha1 |-> str]

verifySignature(token, timestamp, nonce, echostr, signature) ==
  LET sorted == Sort(<<token, timestamp, nonce, echostr>>)
      signatureStr == Sha1Hex(Join(sorted))
  IN signature = signatureStr

\* the signatures tried for four values: the digest of their sorted
\* concatenation, of their concatenation as given and in reverse, and the
\* digest of something else
SignatureKinds == {"sorted", "given", "reversed", "other"}
SignatureOf(kind, arr) ==
  IF kind = "sorted" THEN Sha1Hex(Join(InsertionSort(arr)))
  ELSE IF kind = "given" THEN Sha1Hex(Join(arr))
  ELSE IF kind = "reversed" THEN Sha1Hex(Join(<<arr[4], arr[3], arr[2], arr[1]>>))
  ELSE Sha1Hex(<<0>>)

VSInputs ==
  [token : Strings(MaxStrLen), timestamp : Strings(MaxStrLen), nonce : Strings(MaxStrLen),
   echostr : Strings(MaxStrLen), kind : SignatureKinds]

NotCalled == [called |-> FALSE, value |-> FALSE]

InitVS ==
  /\ vsArgs = [token |-> <<>>, timestamp |-> <<>>, nonce |-> <<>>, echostr |-> <<>>,
               kind |-> "other"]
  /\ vsRet = NotCalled

\* the calls under study: any four strings with any of the signatures
DrawVS ==
  /\ vsArgs \in VSInputs
  /\ vsRet = NotCalled

\* the signature argument of the call
Signature ==
  SignatureOf(vsArgs.kind, <<vsArgs.token, vsArgs.timestamp, vsArgs.nonce, vsArgs.echostr>>)

\* the call verifySignature(token, timestamp, nonce, echostr, signature)
Verify ==
  /\ ~vsRet.called
  /\ vsRet' = [called |-> TRUE,
               value |-> verifySignature(vsArgs.token, vsArgs.timestamp, vsArgs.nonce,
                                         vsArgs.echostr, Signature)]
  /\ UNCHANGED <<vsArgs, dmArgs, dmShape, dmRet>>

\* Buffer.from(str, "utf8"), for code units below 0x800
RECURSIVE Utf8Encode(_)
Utf8Encode(str) ==
  IF str = <<>> THEN <<>>
  ELSE (IF Head(str) < 128 THEN <<Head(str)>>
        ELSE <<192 + (Head(str) \div 64), 128 + (Head(str) % 64)>>)
       \o Utf8Encode(Tail(str))

\* buf.toString("utf8"): one- and two-byte sequences, U+FFFD for anything else
RECURSIVE Utf8Decode(_)
Utf8Decode(buf) ==
  IF buf = <<>> THEN <<>>
  ELSE IF Head(buf) < 128 THEN <<Head(buf)>> \o Utf8Decode(Tail(buf))
  ELSE IF /\ Head(buf) \in 194..223 /\ Len(buf) >= 2 /\ buf[2] \in 128..191
       THEN <<(Head(buf) - 192) * 64 + (buf[2] - 128)>> \o Utf8Decode(Tail(Tail(buf)))
  ELSE <<65533>> \o Utf8Decode(Tail(buf))

\* the 32-bit big-endian length prefix, and buf.readUInt32BE(offset)
Be32(n) == <<(n \div 16777216) % 256, (n \div 65536) % 256, (n \div 256) % 256, n % 256>>
ReadUInt32BE(buf, offset) ==
  buf[offset + 1] * 16777216 + buf[offset + 2] * 65536 + buf[offset + 3] * 256
    + buf[offset + 4]

\* buf.slice(start, end): negative indices count from the end, both are clamped
Clamp(i, n) == IF i < 0 THEN Max(n + i, 0) ELSE IF i > n THEN n ELSE i
Slice(buf, start, end) ==
  SubSeq(buf, Clamp(start, Len(buf)) + 1, Clamp(end, Len(buf)))

\* PKCS#7: 1..block bytes, each holding their number
Pkcs7Pad(buf, block) ==
  LET pad == block - (Len(buf) % block)
  IN buf \o [i \in 1..pad |-> pad]

\* Buffer.from(encodingAESKey + "=", "base64"): the 32 key bytes of each
\* configured key
AESKeys == {"keyA", "keyB"}
KeyBytes(encodingAESKey) ==
  [i \in 1..32 |-> IF encodingAESKey = "keyA" THEN i ELSE 255 - i]

\* AES-256-CBC without padding and base64, as the bijections they are: a
\* ciphertext is opened by the key and iv it was made with
AesCbcEncrypt(key, iv, plain) == [key |-> key, iv |-> iv, plain |-> plain]
AesCbcDecrypt(key, iv, cipher) ==
  IF cipher.key = key /\ cipher.iv = iv THEN cipher.plain
  ELSE [i \in 1..Len(cipher.plain) |-> 0]

\* decipher.final() with setAutoPadding(false): throws "wrong final block
\* length" unless the data is a whole number of 16-byte blocks
FinalThrows(cipher) == Len(cipher.plain) % 16 # 0
Base64Encode(buf) == [base64 |-> buf]
Base64Decode(str) == str.base64

\* decrypted.slice(20, 20 + contentLen): the end of the slice
ContentEndNoOffset(contentLen) == contentLen
ContentEnd(contentLen) == 20 + contentLen

decryptMessage(encodingAESKey, encrypted) ==
  LET key == KeyBytes(encodingAESKey)
      iv == Slice(key, 0, 16)
      decrypted == AesCbcDecrypt(key, iv, Base64Decode(encrypted))
      pad == decrypted[Len(decrypted)]
      unpadded == Slice(decrypted, 0, 0 - pad)
  IN IF FinalThrows(Base64Decode(encrypted)) \/ Len(unpadded) < 20
     THEN [called |-> TRUE, threw |-> TRUE, value |-> <<>>]    \* RangeError
     ELSE [called |-> TRUE, threw |-> FALSE,
           value |-> Utf8Decode(Slice(unpadded, 20,
                                      ContentEnd(ReadUInt32BE(unpadded, 16))))]

\* the reference encryption of the platform:
\* random16 ++ be32(len(content)) ++ content ++ corpId, padded, under
\* (key, iv = key[0:16])
ReferenceEncrypt(in) ==
  LET key == KeyBytes(in.encodingAESKey)
      content == Utf8Encode(in.content)
  IN Base64Encode(AesCbcEncrypt(key, SubSeq(key, 1, 16),
       Pkcs7Pad(in.random \o Be32(Len(content)) \o content \o in.corpId, in.block)))

\* the envelopes a sender can build from a message: the reference one, or one
\* whose length field declares excess bytes more than the content has, whose
\* plaintext stops short of the length field, or whose ciphertext lost its
\* last cut bytes
Reference == [excess |-> 0, short |-> FALSE, cut |-> 0]
MaxExcess == 4
EnvelopeShapes == [excess : 0..MaxExcess, short : BOOLEAN, cut : {0, 1}]

Plaintext(in, shape) ==
  IF shape.short THEN in.random
  ELSE in.random \o Be32(Len(Utf8Encode(in.content)) + shape.excess)
         \o Utf8Encode(in.content) \o in.corpId

Envelope(in, shape) ==
  IF shape = Reference THEN ReferenceEncrypt(in)
  ELSE LET key == KeyBytes(in.encodingAESKey)
           padded == Pkcs7Pad(Plaintext(in, shape), in.block)
       IN Base64Encode(AesCbcEncrypt(key, SubSeq(key, 1, 16),
            SubSeq(padded, 1, Len(padded) - shape.cut)))

Randoms == {[i \in 1..16 |-> 0], [i \in 1..16 |-> 16 * i - 1]}
CorpIds == {<<>>, <<119, 119>>, <<119, 119, 49>>}
Blocks == {16, 32}

DMInputs ==
  [encodingAESKey : AESKeys, random : Randoms, content : Strings(MaxStrLen),
   corpId : CorpIds, block : Blocks]

NotDecrypted == [called |-> FALSE, threw |-> FALSE, value |-> <<>>]

InitDM ==
  /\ dmArgs = [encodingAESKey |-> "keyA", random |-> [i \in 1..16 |-> 0],
               content |-> <<>>, corpId |-> <<>>, block |-> 16]
  /\ dmShape = Reference
  /\ dmRet = NotDecrypted

\* the messages under study
DrawDM ==
  /\ dmArgs \in DMInputs
  /\ dmShape = Reference
  /\ dmRet = NotDecrypted

\* the envelopes under study, well-formed or not
DrawEnvelope ==
  /\ dmArgs \in DMInputs
  /\ dmShape \in EnvelopeShapes
  /\ dmRet = NotDecrypted

\* the call decryptMessage(encodingAESKey, encrypted) on the envelope built
\* from dmArgs: its reference encryption unless dmShape says otherwise
Decrypt ==
  /\ ~dmRet.called
  /\ dmRet' = decryptMessage(dmArgs.encodingAESKey, Envelope(dmArgs, dmShape))
  /\ UNCHANGED <<vsArgs, vsRet, dmArgs, dmShape>>

Init ==
  /\ InitClock /\ InitCB /\ InitRL /\ InitRC /\ InitMQ /\ InitH /\ InitVS /\ InitDM
  /\ InitCP /\ InitAT /\ InitSend /\ InitConn /\ InitQueued

NextCB ==
  \/ Execute /\ UNCHANGED <<now, rlVars, rcVars, mqVars, hVars, pfVars, cpVars, atVars, concurrency, sendVars, connVars, qsVars>>
  \/ \E token \in TokenAnswers, send \in SendAnswers :
       /\ SendFn(token, send).ok
       /\ FnResolves(SendFn(token, send).value)
       /\ UNCHANGED <<now, rlVars, rcVars, mqVars, hVars, pfVars, cpVars, atVars, concurrency, sendVars, connVars, qsVars>>
  \/ \E token \in TokenAnswers, send \in SendAnswers :
       /\ ~SendFn(token, send).ok
       /\ FnRejects(SendFn(token, send).value)
       /\ UNCHANGED <<now, rlVars, rcVars, mqVars, hVars, pfVars, cpVars, atVars, concurrency, sendVars, connVars, qsVars>>
  \/ Reset /\ UNCHANGED <<now, rlVars, rcVars, mqVars, hVars, pfVars, cpVars, atVars, concurrency, sendVars, connVars, qsVars>>
  \/ IsAvailable /\ UNCHANGED <<now, rlVars, rcVars, mqVars, hVars, pfVars, cpVars, atVars, concurrency, sendVars, connVars, qsVars>>
  \/ GetState /\ UNCHANGED <<now, rlVars, rcVars, mqVars, hVars, pfVars, cpVars, atVars, concurrency, sendVars, connVars, qsVars>>
  \/ Trip /\ UNCHANGED <<now, rlVars, rcVars, mqVars, hVars, pfVars, cpVars, atVars, concurrency, sendVars, connVars, qsVars>>
  \/ TickCB /\ UNCHANGED <<rlVars, rcVars, mqVars, hVars, pfVars, cpVars, atVars, concurrency, sendVars, connVars, qsVars>>

SpecCB == Init /\ [][NextCB]_vars

NextRL ==
  \/ \E key \in Keys : Check(key) /\ UNCHANGED <<now, cbVars, rcVars, mqVars, hVars, pfVars, cpVars, atVars, concurrency, sendVars, connVars, qsVars>>
  \/ CleanupRL /\ UNCHANGED <<now, cbVars, rcVars, mqVars, hVars, pfVars, cpVars, atVars, concurrency, sendVars, connVars, qsVars>>
  \/ TickRL /\ UNCHANGED <<cbVars, rcVars, mqVars, hVars, pfVars, cpVars, atVars, concurrency, sendVars, connVars, qsVars>>

SpecRL == Init /\ [][NextRL]_vars

NextRC ==
  \/ \E key \in CacheKeys : Get(key) /\ UNCHANGED <<now, cbVars, rlVars, mqVars, hVars, pfVars, cpVars, atVars, concurrency, sendVars, connVars, qsVars>>
  \/ \E key \in CacheKeys, data \in Data, ttl \in TTLs :
       Set(key, data, ttl) /\ UNCHANGED <<now, cbVars, rlVars, mqVars, hVars, pfVars, cpVars, atVars, concurrency, sendVars, connVars, qsVars>>
  \/ \E key \in CacheKeys : Has(key) /\ UNCHANGED <<now, cbVars, rlVars, mqVars, hVars, pfVars, cpVars, atVars, concurrency, sendVars, connVars, qsVars>>
  \/ \E key \in CacheKeys : Delete(key) /\ UNCHANGED <<now, cbVars, rlVars, mqVars, hVars, pfVars, cpVars, atVars, concurrency, sendVars, connVars, qsVars>>
  \/ CleanupRC /\ UNCHANGED <<now, cbVars, rlVars, mqVars, hVars, pfVars, cpVars, atVars, concurrency, sendVars, connVars, qsVars>>
  \/ ClearRC /\ UNCHANGED <<now, cbVars, rlVars, mqVars, hVars, pfVars, cpVars, atVars, concurrency, sendVars, connVars, qsVars>>
  \/ TickRC /\ UNCHANGED <<cbVars, rlVars, mqVars, hVars, pfVars, cpVars, atVars, concurrency, sendVars, connVars, qsVars>>

SpecRC == Init /\ [][NextRC]_vars

NextMQ ==
  \/ Add /\ UNCHANGED <<now, cbVars, rlVars, rcVars, hVars, pfVars, cpVars, atVars, concurrency, sendVars, connVars, qsVars>>
  \/ \E w \in Slots : SendResolves(w) /\ UNCHANGED <<now, cbVars, rlVars, rcVars, hVars, pfVars, cpVars, atVars, concurrency, sendVars, connVars, qsVars>>
  \/ \E w \in Slots, err \in Errors :
       SendRejects(w, err) /\ UNCHANGED <<now, cbVars, rlVars, rcVars, hVars, pfVars, cpVars, atVars, concurrency, sendVars, connVars, qsVars>>
  \/ \E w \in Slots : BackoffEnds(w) /\ UNCHANGED <<now, cbVars, rlVars, rcVars, hVars, pfVars, cpVars, atVars, concurrency, sendVars, connVars, qsVars>>
  \/ \E w \in Slots : Resume(w) /\ UNCHANGED <<now, cbVars, rlVars, rcVars, hVars, pfVars, cpVars, atVars, concurrency, sendVars, connVars, qsVars>>
  \/ Clear /\ UNCHANGED <<now, cbVars, rlVars, rcVars, hVars, pfVars, cpVars, atVars, concurrency, sendVars, connVars, qsVars>>
  \/ RetryFailed /\ UNCHANGED <<now, cbVars, rlVars, rcVars, hVars, pfVars, cpVars, atVars, concurrency, sendVars, connVars, qsVars>>
  \/ ClearFailed /\ UNCHANGED <<now, cbVars, rlVars, rcVars, hVars, pfVars, cpVars, atVars, concurrency, sendVars, connVars, qsVars>>
  \/ TickMQ /\ UNCHANGED <<now, cbVars, rlVars, rcVars, hVars, pfVars, cpVars, atVars, concurrency, sendVars, connVars, qsVars>>

SpecMQ == Init /\ [][NextMQ]_vars

\* a MessageQueue constructed with maxConcurrent: 1
InitSingle ==
  /\ InitClock /\ InitCB /\ InitRL /\ InitRC /\ InitQueue(1) /\ InitH /\ InitVS /\ InitDM
  /\ InitCP /\ InitAT /\ InitSend /\ InitConn /\ InitQueued

SpecMQSingle == InitSingle /\ [][NextMQ]_vars

\* a queue nobody calls clear() on, with a drain() caller
Settles(w) == \/ SendResolves(w) /\ UNCHANGED <<now, cbVars, rlVars, rcVars, hVars, pfVars, cpVars, atVars, concurrency, sendVars, connVars, qsVars>>
              \/ \E err \in Errors : SendRejects(w, err) /\ UNCHANGED <<now, cbVars, rlVars, rcVars, hVars, pfVars, cpVars, atVars, concurrency, sendVars, connVars, qsVars>>

NextMQLive ==
  \/ Add /\ UNCHANGED <<now, cbVars, rlVars, rcVars, hVars, pfVars, cpVars, atVars, concurrency, sendVars, connVars, qsVars>>
  \/ \E w \in Slots : Settles(w)
  \/ \E w \in Slots : BackoffEnds(w) /\ UNCHANGED <<now, cbVars, rlVars, rcVars, hVars, pfVars, cpVars, atVars, concurrency, sendVars, connVars, qsVars>>
  \/ \E w \in Slots : Resume(w) /\ UNCHANGED <<now, cbVars, rlVars, rcVars, hVars, pfVars, cpVars, atVars, concurrency, sendVars, connVars, qsVars>>
  \/ Drain /\ UNCHANGED <<now, cbVars, rlVars, rcVars, hVars, pfVars, cpVars, atVars, concurrency, sendVars, connVars, qsVars>>
  \/ DrainPoll /\ UNCHANGED <<now, cbVars, rlVars, rcVars, hVars, pfVars, cpVars, atVars, concurrency, sendVars, connVars, qsVars>>
  \/ TickMQ /\ UNCHANGED <<now, cbVars, rlVars, rcVars, hVars, pfVars, cpVars, atVars, concurrency, sendVars, connVars, qsVars>>

\* a queue on which clear, clearFailed and retryFailed are never called
SpecMQNoClear == Init /\ [][NextMQLive]_vars

\* every sendFn invocation settles, every timer fires and every continuation
\* that is ready runs
SpecMQLive ==
  /\ Init /\ [][NextMQLive]_vars
  /\ \A w \in Slots : WF_vars(Settles(w))
  /\ \A w \in Slots : WF_vars(BackoffEnds(w) /\ UNCHANGED <<now, cbVars, rlVars, rcVars, hVars, pfVars, cpVars, atVars, concurrency, sendVars, connVars, qsVars>>)
  /\ \A w \in Slots : WF_vars(Resume(w) /\ UNCHANGED <<now, cbVars, rlVars, rcVars, hVars, pfVars, cpVars, atVars, concurrency, sendVars, connVars, qsVars>>)
  /\ WF_vars(TickMQ /\ UNCHANGED <<now, cbVars, rlVars, rcVars, hVars, pfVars, cpVars, atVars, concurrency, sendVars, connVars, qsVars>>)
  /\ WF_vars(DrainPoll /\ UNCHANGED <<now, cbVars, rlVars, rcVars, hVars, pfVars, cpVars, atVars, concurrency, sendVars, connVars, qsVars>>)

NextCP ==
  \/ \E option \in TimeoutOptions :
       Request(option) /\ UNCHANGED <<now, cbVars, rlVars, rcVars, mqVars, hVars, pfVars, atVars, concurrency, sendVars, connVars, qsVars>>
  \/ \E id \in 1..Len(cpReqs) :
       FetchResolves(id) /\ UNCHANGED <<now, cbVars, rlVars, rcVars, mqVars, hVars, pfVars, atVars, concurrency, sendVars, connVars, qsVars>>
  \/ \E id \in 1..Len(cpReqs), err \in FetchErrors \cup {"AbortError"} :
       FetchRejects(id, err) /\ UNCHANGED <<now, cbVars, rlVars, rcVars, mqVars, hVars, pfVars, atVars, concurrency, sendVars, connVars, qsVars>>
  \/ \E id \in 1..Len(cpReqs) :
       TimerFires(id) /\ UNCHANGED <<now, cbVars, rlVars, rcVars, mqVars, hVars, pfVars, atVars, concurrency, sendVars, connVars, qsVars>>
  \/ TickCP /\ UNCHANGED <<cbVars, rlVars, rcVars, mqVars, hVars, pfVars, atVars, concurrency, sendVars, connVars, qsVars>>

SpecCP == Init /\ [][NextCP]_vars

NextAT ==
  \/ \E corpId \in CorpIdsAT :
       GetAccessToken(corpId) /\ UNCHANGED <<now, cbVars, rlVars, mqVars, hVars, pfVars, cpVars, concurrency, sendVars, connVars, qsVars>>
  \/ \E corpId \in CorpIdsAT, errcode \in Errcodes, expires_in \in ExpiresIn :
       TokenResponse(corpId, errcode, expires_in)
         /\ UNCHANGED <<now, cbVars, rlVars, mqVars, hVars, pfVars, cpVars, concurrency, sendVars, connVars, qsVars>>
  \/ \E corpId \in CorpIdsAT :
       TokenRequestFails(corpId) /\ UNCHANGED <<now, cbVars, rlVars, mqVars, hVars, pfVars, cpVars, concurrency, sendVars, connVars, qsVars>>
  \/ TickAT /\ UNCHANGED <<cbVars, rlVars, mqVars, hVars, pfVars, cpVars, concurrency, sendVars, connVars, qsVars>>

SpecAT == Init /\ [][NextAT]_vars

NextSend ==
  \/ \E c \in Callers, accountId \in AccountIds :
       SendMessage(c, accountId)
         /\ UNCHANGED <<now, rcVars, mqVars, hVars, pfVars, cpVars, atVars, concurrency, connVars, qsVars>>
  \/ \E c \in Callers :
       SendWakes(c) /\ UNCHANGED <<now, rcVars, mqVars, hVars, pfVars, cpVars, atVars, concurrency, connVars, qsVars>>
  \/ \E c \in Callers, key \in AccountIds :
       WaitForSlot(c, key)
         /\ UNCHANGED <<now, rcVars, mqVars, hVars, pfVars, cpVars, atVars, concurrency, connVars, qsVars>>
  \/ \E c \in Callers :
       SlotWakes(c) /\ UNCHANGED <<now, rcVars, mqVars, hVars, pfVars, cpVars, atVars, concurrency, connVars, qsVars>>
  \/ \E ok \in BOOLEAN :
       SendSettles(ok) /\ UNCHANGED <<now, rcVars, mqVars, hVars, pfVars, cpVars, atVars, concurrency, connVars, qsVars>>
  \/ TickSend /\ UNCHANGED <<rcVars, mqVars, hVars, pfVars, cpVars, atVars, concurrency, connVars, qsVars>>

SpecSend == Init /\ [][NextSend]_vars

NextConn ==
  \/ \E key \in ConnKeys :
       GetConnection(key)
         /\ UNCHANGED <<now, cbVars, rlVars, rcVars, mqVars, hVars, pfVars, cpVars, atVars,
                        concurrency, sendVars, qsVars>>
  \/ \E maxAge \in MaxAges :
       CleanupConn(maxAge)
         /\ UNCHANGED <<now, cbVars, rlVars, rcVars, mqVars, hVars, pfVars, cpVars, atVars,
                        concurrency, sendVars, qsVars>>
  \/ ClearConn /\ UNCHANGED <<now, cbVars, rlVars, rcVars, mqVars, hVars, pfVars, cpVars, atVars,
                              concurrency, sendVars, qsVars>>
  \/ TickConn /\ UNCHANGED <<cbVars, rlVars, rcVars, mqVars, hVars, pfVars, cpVars, atVars,
                             concurrency, sendVars, qsVars>>

SpecConn == Init /\ [][NextConn]_vars

qsOther == <<rlVars, rcVars, hVars, pfVars, cpVars, atVars, concurrency, sendVars, connVars>>

NextQueued ==
  \/ Add /\ UNCHANGED <<now, cbVars, qsVars, qsOther>>
  \/ \E w \in Slots : QueuedExecute(w) /\ UNCHANGED <<now, qsOther>>
  \/ \E w \in Slots : QueuedResolves(w) /\ UNCHANGED <<now, qsOther>>
  \/ \E w \in Slots, err \in SendErrors : QueuedRejects(w, err) /\ UNCHANGED <<now, qsOther>>
  \/ \E w \in Slots : BackoffEnds(w) /\ UNCHANGED <<now, cbVars, qsVars, qsOther>>
  \/ \E w \in Slots : Resume(w) /\ UNCHANGED <<now, cbVars, qsVars, qsOther>>
  \/ Trip /\ UNCHANGED <<now, mqVars, qsVars, qsOther>>
  \/ TickQueued /\ UNCHANGED <<cbVars, qsVars, qsOther>>

SpecQueued == InitSingle /\ [][NextQueued]_vars

otherVars == <<now, cbVars, rlVars, rcVars, mqVars, pfVars, cpVars, atVars, concurrency, sendVars, connVars, qsVars>>

NextH ==
  \/ \E r \in Requests : Receive(r) /\ UNCHANGED otherVars
  \/ BodyArrives /\ UNCHANGED otherVars
  \/ \E outcome \in {"resolves", "throws"} : DispatchSettles(outcome) /\ UNCHANGED otherVars
  \/ Returned /\ UNCHANGED otherVars

SpecH == Init /\ [][NextH]_vars

\* every await of the handler settles: the body is read or the stream fails,
\* and the dispatch call resolves or throws
SpecHLive ==
  /\ SpecH
  /\ WF_vars(BodyArrives /\ UNCHANGED otherVars)
  /\ WF_vars(\E outcome \in {"resolves", "throws"} :
               DispatchSettles(outcome) /\ UNCHANGED otherVars)

NextVS == Verify /\ UNCHANGED <<now, cbVars, rlVars, rcVars, mqVars, hVars, cpVars, atVars, concurrency, sendVars, connVars, qsVars>>

InitDrawVS ==
  /\ InitClock /\ InitCB /\ InitRL /\ InitRC /\ InitMQ /\ InitH /\ DrawVS /\ InitDM
  /\ InitCP /\ InitAT /\ InitSend /\ InitConn /\ InitQueued

SpecVS == InitDrawVS /\ [][NextVS]_vars

NextDM == Decrypt /\ UNCHANGED <<now, cbVars, rlVars, rcVars, mqVars, hVars, cpVars, atVars, concurrency, sendVars, connVars, qsVars>>

InitDrawDM ==
  /\ InitClock /\ InitCB /\ InitRL /\ InitRC /\ InitMQ /\ InitH /\ InitVS /\ DrawDM
  /\ InitCP /\ InitAT /\ InitSend /\ InitConn /\ InitQueued

SpecDM == InitDrawDM /\ [][NextDM]_vars

InitDrawEnvelope ==
  /\ InitClock /\ InitCB /\ InitRL /\ InitRC /\ InitMQ /\ InitH /\ InitVS /\ DrawEnvelope
  /\ InitCP /\ InitAT /\ InitSend /\ InitConn /\ InitQueued

SpecDMEnvelope == InitDrawEnvelope /\ [][NextDM]_vars

\* ------------------------------------------------ CircuitBreaker claims

\* C2: execute never starts fn while the breaker is open: a step that starts fn
\* (inflight grows) never ends in state open, and when it begins in state open
\* then now - lastFailureTime > resetTimeout and the state is half-open when fn
\* starts.
C2_NeverServesWhileOpen ==
  [][inflight' = inflight + 1 =>
       /\ state' # "open"
       /\ state = "open" =>
            /\ lastFailureTime # NoTime
            /\ now - lastFailureTime > resetTimeout
            /\ state' = "half-open"]_vars

\* an execute called in state open was admitted while another call was in flight
C2_Witness ==
  /\ cbLast.op = "execute" /\ cbLast.from = "open" /\ cbLast.admitted
  /\ state = "half-open"
  /\ inflight >= 2

\* C9: in state open execute rejects at once with CircuitBreakerOpenError
\* carrying timeUntilReset and does not run fn, unless
\* now - lastFailureTime > resetTimeout: then the breaker is half-open with
\* halfOpenSuccess = 0 and the call is admitted.  failureThreshold consecutive
\* failures open the breaker; a call at the instant of the last failure is
\* rejected.
C9_OpenRejectsUntilTimeout ==
  [][/\ (cbLast'.op = "execute" /\ state = "open") =>
          IF lastFailureTime # NoTime /\ now - lastFailureTime > resetTimeout
          THEN /\ state' = "half-open"
               /\ halfOpenSuccess' = 0
               /\ inflight' = inflight + 1
               /\ cbLast'.admitted
          ELSE /\ ~cbLast'.admitted
               /\ inflight' = inflight
               /\ cbLast'.timeUntilReset = Max(0, resetTimeout - (now - lastFailureTime))
               /\ cbLast'.timeUntilReset \in 0..resetTimeout
               /\ <<state, failureCount, lastFailureTime, halfOpenSuccess>>' =
                    <<state, failureCount, lastFailureTime, halfOpenSuccess>>
     /\ (cbLast'.op = "execute" /\ state = "open" /\ now = lastFailureTime) =>
          ~cbLast'.admitted
     /\ (cbLast'.op = "failure" /\ state = "closed"
           /\ failureCount + 1 = failureThreshold) => state' = "open"]_vars

\* failureThreshold failures opened the breaker and a call made after the reset
\* timeout has just been admitted in half-open with the trial counter at 0
C9_Witness ==
  /\ cbLast.op = "execute" /\ cbLast.from = "open" /\ cbLast.admitted
  /\ state = "half-open" /\ halfOpenSuccess = 0
  /\ failureCount >= failureThreshold
  /\ now - lastFailureTime > resetTimeout

\* C10: in state closed a failed call adds one to failureCount and records
\* lastFailureTime, and the breaker opens exactly when failureCount reaches
\* failureThreshold; a successful call sets failureCount to 0 (and leaves a
\* closed breaker closed).
C10_ClosedCounting ==
  [][/\ (cbLast'.op = "failure" /\ state = "closed") =>
          /\ failureCount' = failureCount + 1
          /\ lastFailureTime' = now
          /\ state' \in {"closed", "open"}
          /\ (state' = "open") <=> (failureCount' = failureThreshold)
     /\ cbLast'.op = "success" => failureCount' = 0
     /\ (cbLast'.op = "success" /\ state = "closed") => state' = "closed"]_vars

\* a failure in state closed has just opened the breaker at the threshold
C10_Witness ==
  /\ cbLast.op = "failure" /\ cbLast.from = "closed"
  /\ state = "open"
  /\ failureCount = failureThreshold
  /\ lastFailureTime = now

\* C11: in half-open every success adds one to the trial counter; the success
\* that brings it to halfOpenSuccessThreshold closes the breaker with
\* failureCount 0, lastFailureTime null and the trial counter back at 0; one
\* failure in half-open opens the breaker again.
C11_HalfOpenTrial ==
  [][/\ (cbLast'.op = "success" /\ state = "half-open") =>
          IF halfOpenSuccess + 1 = halfOpenSuccessThreshold
          THEN /\ state' = "closed"
               /\ failureCount' = 0
               /\ lastFailureTime' = NoTime
               /\ halfOpenSuccess' = 0
          ELSE /\ state' = "half-open"
               /\ halfOpenSuccess' = halfOpenSuccess + 1
     /\ (cbLast'.op = "failure" /\ state = "half-open") => state' = "open"]_vars

\* the success that completed the trial closed the breaker
C11_Witness ==
  /\ cbLast.op = "success" /\ cbLast.from = "half-open"
  /\ state = "closed" /\ halfOpenSuccess = 0 /\ lastFailureTime = NoTime

\* C12: when fn fails, execute goes through onFailure (one more failure is
\* counted) and fails with the error fn failed with; when fn succeeds, execute
\* returns fn's result.  An errcode other than 0 from the token API or from the
\* send API makes fn fail with the error built for it, so it reaches the caller
\* of sendWorkWeixinMessage unchanged and counts as one failure.
C12_ErrorsPropagate ==
  [][/\ cbLast'.op = "failure" =>
          /\ cbLast'.value = cbLast'.fn
          /\ cbLast'.fn \in {SendFn(t, s).value : t \in TokenAnswers, s \in SendAnswers}
                            \ {SendFn("ok", "ok").value}
          /\ failureCount' = failureCount + 1
          /\ lastFailureTime' = now
     /\ cbLast'.op = "success" =>
          /\ cbLast'.value = cbLast'.fn
          /\ cbLast'.fn = SendFn("ok", "ok").value
     /\ \A s \in SendAnswers :
          SendFn("errcode", s) = [ok |-> FALSE, value |-> "Failed to get access token"]
     /\ \A t \in {"cached", "ok"} :
          SendFn(t, "errcode") = [ok |-> FALSE, value |-> "Failed to send message"]]_vars

\* the send API answered with an errcode and the caller got that error
C12_Witness ==
  /\ cbLast.op = "failure"
  /\ cbLast.value = "Failed to send message"
  /\ failureCount > 0

\* --------------------------------------------------- RateLimiter claims

\* the number of admitted check(k) calls with timestamp in (s - windowMs, s]
AdmittedIn(k, s) ==
  Cardinality({i \in DOMAIN admitted[k] :
                 s - windowMs < admitted[k][i] /\ admitted[k][i] <= s})

\* C3: for every key and every instant, at most maxRequests admitted checks of
\* that key have their timestamp in the trailing window of length windowMs
\* ending at that instant.
C3_WindowBound ==
  \A k \in Keys : \A s \in 1..(MaxTimeRL + windowMs) : AdmittedIn(k, s) <= maxRequests

\* a key filled its window, was denied, and was admitted again once the oldest
\* timestamp had left the window; the other key was admitted too
C3_Witness ==
  \E k \in Keys :
    /\ Len(admitted[k]) > maxRequests
    /\ AdmittedIn(k, now) = maxRequests
    /\ rlLast.op = "check" /\ rlLast.key = k /\ ~rlLast.allowed
    /\ \E j \in Keys \ {k} : Len(admitted[j]) > 0

\* C16: a denied check(key) has waitTime > 0, and when no check(key) has been
\* admitted since, a check(key) made waitTime or more after the denial is
\* admitted.  Counting from an empty window, the first maxRequests checks of a
\* key are admitted and the next one within the window is denied.
C16_DeniedThenAdmitted ==
  [][\A k \in Keys :
       (rlLast'.op = "check" /\ rlLast'.key = k) =>
         /\ ~rlLast'.allowed => rlLast'.waitTime > 0
         /\ (/\ denial[k].at # NoTime /\ denial[k].admittedAt = NoTime
             /\ now >= denial[k].at + denial[k].waitTime) =>
              rlLast'.allowed
         /\ rlLast'.allowed <=> AdmittedIn(k, now) < maxRequests]_vars

\* a key was denied, and admitted by the first check made once the waitTime of
\* the denial had passed
C16_Witness ==
  \E k \in Keys :
    /\ rlLast.op = "check" /\ rlLast.key = k /\ rlLast.allowed
    /\ denial[k].at # NoTime
    /\ denial[k].admittedAt = denial[k].at + denial[k].waitTime
    /\ Len(admitted[k]) = maxRequests + 1
    /\ admitted[k][maxRequests + 1] = now

\* the result and the stored list of a check(key) whose pruning keeps the
\* timestamps that satisfy Keep(t, now)
CheckDoes(k, Keep(_, _)) ==
  LET kept == SelectSeq(Stored(k), LAMBDA t : Keep(t, now))
      count == Len(kept)
      stored == IF k \in DOMAIN requests' THEN requests'[k] ELSE <<>>
  IN IF count >= maxRequests
     THEN /\ ~rlLast'.allowed
          /\ rlLast'.remaining = 0
          /\ rlLast'.waitTime = kept[1] + windowMs - now
          /\ stored = Stored(k)
     ELSE /\ rlLast'.allowed
          /\ rlLast'.remaining = maxRequests - count - 1
          /\ stored = Append(kept, now)

NotOlder(t, s) == t >= s - windowMs
Newer(t, s) == t > s - windowMs

\* C17 as stated: check prunes the timestamps older than now - windowMs (it
\* keeps t >= now - windowMs); with count the number kept, count >= maxRequests
\* gives allowed = false, remaining = 0, waitTime = oldest + windowMs - now and
\* stores nothing, and otherwise now is stored and the result is allowed = true
\* with remaining = maxRequests - count - 1.
C17_AsStated ==
  [][\A k \in Keys :
       (rlLast'.op = "check" /\ rlLast'.key = k) => CheckDoes(k, NotOlder)]_vars

\* C17 amended: the same with the pruning that check performs: a timestamp is
\* kept only when it is newer than now - windowMs (t > now - windowMs), so one
\* that is exactly windowMs old is pruned and does not count.
C17_CheckResult ==
  [][\A k \in Keys :
       (rlLast'.op = "check" /\ rlLast'.key = k) => CheckDoes(k, Newer)]_vars

\* a check was admitted with remaining 0 while the oldest of maxRequests
\* stored timestamps was exactly windowMs old
C17_Witness ==
  \E k \in Keys :
    /\ rlLast.op = "check" /\ rlLast.key = k /\ rlLast.allowed
    /\ rlLast.remaining = 0
    /\ Len(admitted[k]) = maxRequests + 1
    /\ admitted[k][1] = now - windowMs
    /\ Len(requests[k]) = maxRequests

\* -------------------------------------------------- RequestCache claims

\* C4: get(key) on a stored entry returns none and removes the entry when
\* now > expiresAt (it never returns the data of an expired entry); otherwise
\* it returns the stored data and adds one to that entry's hitCount, leaving
\* every other entry as it was.
C4_GetRespectsExpiry ==
  [][\A k \in CacheKeys :
       (rcLast'.op = "get" /\ rcLast'.key = k /\ IndexOf(cache, k) # 0) =>
         LET i == IndexOf(cache, k)
         IN IF now > cache[i].expiresAt
            THEN /\ rcLast'.ret = None
                 /\ IndexOf(cache', k) = 0
                 /\ cache' = SelectSeq(cache, LAMBDA e : e.key # k)
            ELSE /\ rcLast'.ret = cache[i].data
                 /\ cache' = [cache EXCEPT ![i].hitCount = cache[i].hitCount + 1]]_vars

\* a get at the instant now = expiresAt has returned the data of an entry that
\* had been read before, while another, expired entry is still stored
C4_Witness ==
  \E i \in DOMAIN cache :
    /\ rcLast.op = "get" /\ rcLast.key = cache[i].key /\ rcLast.ret = cache[i].data
    /\ cache[i].expiresAt = now
    /\ cache[i].hitCount = 2
    /\ \E j \in DOMAIN cache : now > cache[j].expiresAt

\* the entries of map whose key is not key, in map order
Others(map, key) == SelectSeq(map, LAMBDA e : e.key # key)

\* the entry a set() at maxSize has to evict: lowest hitCount, the earliest in
\* insertion order among equals
Victim(map) ==
  CHOOSE i \in DOMAIN map :
    /\ \A j \in DOMAIN map : map[i].hitCount <= map[j].hitCount
    /\ \A j \in DOMAIN map : (j < i) => map[j].hitCount # map[i].hitCount

\* C18: set(key, data, ttl) on a cache that holds maxSize entries removes
\* exactly one entry, the one with the lowest hitCount and the earliest
\* inserted among equals, and on a cache below maxSize removes nothing; then
\* key is stored once with the data, hitCount 0 and expiresAt = now + ttl, and
\* every other remaining entry is as it was.
C18_SetEvictsOne ==
  [][\A k \in CacheKeys :
       (rcLast'.op = "set" /\ rcLast'.key = k /\ Len(cache) <= maxSize) =>
         LET kept == IF Len(cache) = maxSize
                     THEN SelectSeq(cache, LAMBDA e : e.key # cache[Victim(cache)].key)
                     ELSE cache
         IN /\ Others(cache', k) = Others(kept, k)
            /\ Len(cache') = Len(Others(kept, k)) + 1
            /\ \E i \in DOMAIN cache' :
                 cache'[i] = [key |-> k, data |-> rcLast'.data,
                              expiresAt |-> now + rcLast'.ttl, hitCount |-> 0]]_vars

\* C39: the cache never stores more than maxSize entries; has(key) leaves
\* every hitCount as it was and removes at most the entry of key, and that
\* only when it is expired.
C39_CacheBounded ==
  [][/\ Len(cache') <= maxSize
     /\ \A k \in CacheKeys :
          (rcLast'.op = "has" /\ rcLast'.key = k) =>
            LET i == IndexOf(cache, k)
            IN \/ cache' = cache
               \/ /\ i # 0
                  /\ now > cache[i].expiresAt
                  /\ cache' = MapDelete(cache, k)]_vars

\* -------------------------------------------------- MessageQueue claims

\* C1: under any interleaving of add, deliveries, backoff waits and clear, the
\* sendFn of an item is invoked at most maxRetries + 1 times.
C1_AttemptsBounded ==
  \A i \in Items : attempts[i] <= maxRetries + 1

\* an item has been attempted maxRetries + 1 times, its last attempt failed and
\* sent it to the failure ledger, and the queue was cleared while it was held
C1_Witness ==
  \E i \in Items :
    /\ attempts[i] = maxRetries + 1
    /\ \E j \in DOMAIN failed : failed[j].id = i
    /\ idCounter > stats.success + stats.failed + Len(queue)
          + Cardinality({w \in Slots : workers[w].pc \in {"sending", "backoff"}})

\* the ids of the failure ledger f, and the items some process() call holds
LedgerIds(f) == {f[k].id : k \in 1..Len(f)}
Held(ws) == {ws[w].item : w \in Slots} \ {0}
Pending(q) == {q[k] : k \in 1..Len(q)}

\* C13: an item whose sendFn fails on every attempt enters the failure ledger
\* once: on the rejection of attempt maxRetries + 1 and on no earlier one, as an
\* entry with retries = maxRetries and the error of that rejection.  From then
\* on it is never pending, held or attempted again, and its entry leaves the
\* ledger only by clearFailed or retryFailed.
C13_LedgerOnce ==
  [][\A i \in Items :
       /\ (mqLast'.op = "rejected" /\ mqLast'.item = i) =>
            IF attempts[i] = maxRetries + 1
            THEN /\ settled[i] = "none" /\ settled'[i] = "failed"
                 /\ i \notin LedgerIds(failed)
                 /\ failed' = Append(failed, [id |-> i, error |-> mqLast'.err,
                                              retries |-> maxRetries])
            ELSE /\ attempts[i] < maxRetries + 1
                 /\ settled'[i] = "none"
                 /\ failed' = failed
       /\ (settled[i] = "none" /\ settled'[i] = "failed") =>
            mqLast'.op = "rejected" /\ mqLast'.item = i
       /\ settled[i] = "failed" =>
            /\ settled'[i] = "failed"
            /\ attempts'[i] = attempts[i]
            /\ i \notin Pending(queue') \cup Held(workers')
       /\ Cardinality({k \in 1..Len(failed') : failed'[k].id = i}) <= 1
       /\ (i \in LedgerIds(failed) /\ i \notin LedgerIds(failed')) =>
            mqLast'.op \in {"clearFailed", "retryFailed"}]_vars

\* an item is in the ledger after maxRetries + 1 rejected attempts while another
\* item is still being sent
C13_Witness ==
  \E i \in Items :
    /\ i \in LedgerIds(failed)
    /\ attempts[i] = maxRetries + 1
    /\ mqLast.op = "rejected" /\ mqLast.item = i
    /\ Held(workers) # {}

\* C14: an item whose sendFn resolves, on whichever of its at most
\* maxRetries + 1 attempts, is counted in stats.success once (that step adds
\* one, and stats.success is the number of items that resolved), is never
\* attempted again, and is not in the failure ledger then or later.
C14_SuccessCountedOnce ==
  [][\A i \in Items :
       /\ (mqLast'.op = "resolved" /\ mqLast'.item = i) =>
            /\ settled[i] = "none" /\ settled'[i] = "success"
            /\ attempts[i] \in 1..(maxRetries + 1)
            /\ stats'.success = stats.success + 1
            /\ failed' = failed
       /\ settled[i] = "success" =>
            /\ settled'[i] = "success"
            /\ attempts'[i] = attempts[i]
            /\ i \notin LedgerIds(failed) \cup LedgerIds(failed')
            /\ i \notin Pending(queue') \cup Held(workers')
       /\ stats'.success = Cardinality({j \in Items : settled'[j] = "success"})
       /\ stats'.success # stats.success => mqLast'.op = "resolved"]_vars

\* an item failed maxRetries times and was delivered on its last attempt
C14_Witness ==
  \E i \in Items :
    /\ settled[i] = "success"
    /\ attempts[i] = maxRetries + 1
    /\ itemRetries[i] = maxRetries
    /\ stats.success = 1 /\ stats.retries = maxRetries
    /\ i \notin LedgerIds(failed)

\* C15: when every sendFn invocation terminates and clear() is not called,
\* every item that was added, also one added while every process() call is busy
\* or in backoff, is eventually delivered or moved to the failure ledger and
\* the queue eventually has nothing pending and nothing in flight: whatever has
\* been added, a state follows where the queue is empty and every item added
\* so far is settled.  A waiting drain() returns, and add returns the new id
\* while its item is still undelivered.
C15_QueueDrains ==
  /\ []<>(isEmpty /\ \A i \in 1..idCounter : settled[i] # "none")
  /\ draining ~> ~draining
  /\ [][mqLast'.op = "add" =>
          /\ mqLast'.ret = idCounter' /\ idCounter' = idCounter + 1
          /\ settled'[mqLast'.ret] = "none"
          /\ mqLast'.ret \in Pending(queue') \cup Held(workers')]_vars

\* drain() returned from a poll after more items than maxConcurrent were
\* delivered or given up on
C15_Witness ==
  /\ mqLast.op = "poll" /\ ~draining /\ isEmpty
  /\ idCounter > maxConcurrent
  /\ \A i \in 1..idCounter : settled[i] # "none"
  /\ \E i \in Items : settled[i] = "failed"
  /\ \E i \in Items : settled[i] = "success"

\* the process() call that holds item i in its backoff wait, 0 when none does
BackoffSlot(ws, i) ==
  IF \E w \in Slots : ws[w].pc = "backoff" /\ ws[w].item = i
  THEN CHOOSE w \in Slots : ws[w].pc = "backoff" /\ ws[w].item = i
  ELSE 0

\* C26: on a failed attempt of an item with retries < maxRetries, the item's
\* retry count and stats.retries each increase by exactly one, the item is kept
\* out of the queue and not attempted for retryDelay * 2^retries milliseconds
\* (retries being the count before the increment: retryDelay, 2 * retryDelay,
\* ...), and it is then re-inserted at the front of the queue.
C26_BackoffDoubles ==
  [][\A i \in Items :
       LET w == BackoffSlot(workers, i)
           after == BackoffSlot(workers', i)
       IN /\ (mqLast'.op = "rejected" /\ mqLast'.item = i /\ itemRetries[i] < maxRetries) =>
               /\ itemRetries'[i] = itemRetries[i] + 1
               /\ stats'.retries = stats.retries + 1
               /\ after # 0
               /\ workers'[after].remaining = retryDelay * (2 ^ itemRetries[i])
               /\ i \notin Pending(queue')
          /\ w # 0 =>
               /\ i \notin Pending(queue)
               /\ IF workers[w].remaining > 0
                  THEN /\ after = w /\ attempts'[i] = attempts[i]
                       /\ workers'[w].remaining =
                            IF mqLast'.op = "tick" THEN workers[w].remaining - 1
                            ELSE workers[w].remaining
                  ELSE \/ after = w /\ attempts'[i] = attempts[i]
                       \/ /\ mqLast'.op = "timer" /\ mqLast'.item = i
                          /\ mqLast'.ret = 1
          /\ (mqLast'.op = "timer" /\ mqLast'.item = i) =>
               w # 0 /\ workers[w].remaining = 0]_vars

\* an item failed twice: its second wait of 2 * retryDelay is over and it was
\* put back at the head of the queue, in front of an item added meanwhile
C26_Witness ==
  \E i \in Items :
    /\ mqLast = Op("timer", i, None, 1)
    /\ itemRetries[i] = 2 /\ attempts[i] = 3
    /\ Len(queue) >= 1

\* some item is held in a backoff wait
Waiting(ws) == \E w \in Slots : ws[w].pc = "backoff"

\* C27: retried items take priority over fresh items: an item re-inserted
\* after its backoff precedes every item pending in the queue at that moment,
\* those added during the backoff included, and with maxConcurrent = 1 it is
\* the next item whose sendFn is invoked.
C27_RetryFirst ==
  [][/\ mqLast'.op = "timer" =>
          /\ mqLast'.ret = 1
          /\ Pending(queue) \subseteq Pending(queue')
          /\ maxConcurrent = 1 =>
               /\ attempts'[mqLast'.item] = attempts[mqLast'.item] + 1
               /\ \A j \in Items \ {mqLast'.item} : attempts'[j] = attempts[j]
               /\ queue' = queue
     /\ (maxConcurrent = 1 /\ Waiting(workers) /\ mqLast'.op # "timer") =>
          attempts' = attempts]_vars

\* with maxConcurrent = 1, an item was retried ahead of an item that was added
\* during its backoff and has not been attempted
C27_Witness ==
  /\ maxConcurrent = 1
  /\ mqLast.op = "timer" /\ mqLast.ret = 1
  /\ attempts[mqLast.item] = 2
  /\ \E j \in Pending(queue) : j > mqLast.item /\ attempts[j] = 0

Holding(ws) == {w \in Slots : ws[w].pc \in {"sending", "backoff"}}

\* C33: the worker counter never exceeds the maxConcurrent the queue was
\* built with, and the items held by workers, in delivery or in backoff, are
\* never more than that.
C33_WorkersBounded ==
  /\ processing <= concurrency
  /\ Cardinality(Holding(workers)) <= concurrency
  /\ Cardinality(Held(workers)) <= concurrency

\* every worker is busy, one in delivery and one in backoff, and an item waits
C33_Witness ==
  /\ processing = concurrency
  /\ Cardinality(Held(workers)) = concurrency
  /\ \E w \in Slots : workers[w].pc = "sending"
  /\ \E w \in Slots : workers[w].pc = "backoff"
  /\ Len(queue) > 0

\* C34: while clear, clearFailed, retryFailed and resetStats are not called,
\* stats.total = stats.success + stats.failed + the items pending in the queue
\* + the items held by workers, and stats.failed is the number of ledger
\* entries.
C34_Conservation ==
  /\ stats.total = stats.success + stats.failed + Len(queue) + Cardinality(Held(workers))
  /\ stats.failed = Len(failed)

\* one item delivered, one in the ledger and one held in backoff
C34_Witness ==
  /\ stats.success > 0
  /\ stats.failed > 0
  /\ stats.total = 3
  /\ \E w \in Slots : workers[w].pc = "backoff"

\* C38: once clear() has been called, no item added before it is attempted
\* again or re-enters the queue, the items in delivery or in backoff at that
\* moment included; stated here for the step that follows clear().
C38_ClearedItemsStay ==
  [][mqLast.op = "clear" =>
       \A i \in 1..idCounter :
         /\ attempts'[i] = attempts[i]
         /\ i \notin Pending(queue')]_vars

\* -------------------------------------------- HttpConnectionPool claims

\* the timeout that bounds call id: options.timeout, or the default when the
\* option is absent
Bound(id) == IF cpReqs[id].option = NoTime THEN timeout ELSE cpReqs[id].option

\* C24: every HttpConnectionPool.request is bounded by a timeout: a call whose
\* fetch has not completed options.timeout ?? defaultTimeout milliseconds after
\* it started is aborted, and request then fails and is counted in
\* failedRequests; when fetch completes earlier the timer is cancelled and no
\* abort happens later.
C24_RequestTimesOut ==
  /\ [](\A id \in 1..Len(cpReqs) :
          /\ cpReqs[id].pc = "fetching" => now <= cpReqs[id].startTime + Bound(id)
          /\ cpReqs[id].pc = "fetching" <=> id \in cpTimers)
  /\ [][/\ cpLast'.op = "abort" =>
             /\ cpLast'.pending
             /\ cpLast'.elapsed = Bound(cpLast'.id)
             /\ cpReqs'[cpLast'.id].pc = "aborted"
        /\ \A id \in 1..Len(cpReqs) :
             cpReqs[id].pc = "aborted" =>
               /\ now' = now
               /\ cpReqs'[id].pc \in {"aborted", "rejected"}
               /\ cpReqs'[id].pc = "rejected" =>
                    /\ cpLast'.error = "AbortError"
                    /\ cpStats'.failedRequests = cpStats.failedRequests + 1
                    /\ cpStats'.successfulRequests = cpStats.successfulRequests
        /\ \A id \in 1..Len(cpReqs) :
             cpReqs[id].pc \in {"resolved", "rejected"} => cpReqs'[id] = cpReqs[id]]_vars

\* a call with timeout 1 was aborted one millisecond after it started and
\* failed with AbortError, after an earlier call with the default timeout had
\* completed in time and stayed completed
C24_Witness ==
  /\ Len(cpReqs) >= 2
  /\ cpReqs[1].pc = "resolved" /\ cpReqs[1].option = NoTime
  /\ now > cpReqs[1].startTime + timeout
  /\ cpReqs[2].pc = "rejected" /\ cpReqs[2].option = 1
  /\ cpLast = [op |-> "rejected", id |-> 2, elapsed |-> 1, pending |-> TRUE,
               error |-> "AbortError"]
  /\ cpStats.failedRequests = 1 /\ cpStats.successfulRequests = 1

\* -------------------------------------------------- getAccessToken claims

\* the token last fetched for corpId is within its TTL of
\* (expires_in - 120) * 1000 ms at time t
WithinTtl(corpId, t) ==
  /\ atStored[corpId].at # NoTime
  /\ t <= atStored[corpId].at + (atStored[corpId].expiresIn - 120) * 1000

\* C25: getAccessToken caches a successfully fetched token with TTL
\* (expires_in - 120) * 1000 ms: a later getAccessToken for the same corpId
\* within that TTL returns the cached token without any network call, one
\* after the TTL performs a new fetch, and a fetch whose errcode is not 0 fails
\* and caches nothing.
C25_TokenCachedForTtl ==
  [][/\ atLast'.op \in {"cached", "request"} =>
          IF WithinTtl(atLast'.corpId, now)
          THEN /\ ~atLast'.network /\ ~atLast'.threw
               /\ atLast'.token = atStored[atLast'.corpId].token
               /\ atIssued' = atIssued
          ELSE atLast'.network /\ atIssued' = atIssued + 1
     /\ (atLast'.op = "response" /\ atLast'.threw) =>
          (cache' = cache /\ atStored' = atStored)
     /\ (atLast'.op = "response" /\ ~atLast'.threw) =>
          \E i \in DOMAIN cache' :
            /\ cache'[i].key = CacheKey(atLast'.corpId)
            /\ cache'[i].data.accessToken = atLast'.token
            /\ cache'[i].expiresAt = now + (cache'[i].data.expiresIn - 120) * 1000]_vars

\* the token fetched at time 1 with expires_in = 121 was returned from the
\* cache at time 1001, the last instant of its TTL of 1000 ms
C25_Witness ==
  /\ atStored["corpA"] = [token |-> 1, at |-> 1, expiresIn |-> 121]
  /\ now = 1001
  /\ atLast = [op |-> "cached", corpId |-> "corpA", network |-> FALSE,
               threw |-> FALSE, token |-> 1]
  /\ atIssued = 1

\* ------------------------------------------------------- handler claims

\* the handler went past the prologue, the configuration test and the body read,
\* and parser.parse(body) returned
PostParsed ==
  /\ hpc = "done" /\ req.method = "POST" /\ ~req.fault
  /\ req.token /\ req.encodingAESKey
  /\ req.read = "ok" /\ req.outer # "throws"

\* C5: a POST whose Encrypt field is absent, or whose signature does not
\* verify, or whose decryption fails, or whose decrypted message is not a text
\* message with non-empty content, is answered 200 "success" and the dispatcher
\* is not called for it.
C5_PostFailuresAcknowledged ==
  (/\ PostParsed
   /\ \/ req.outer = "absent"
      \/ ~req.sigOk
      \/ req.plain = "throws"
      \/ ~req.parsed
      \/ req.MsgType # "text"
      \/ ~req.Content)
  => (res.statusCode = 200 /\ res.body = "success" /\ dispatched = 0)

\* a signed, decrypted, parsed text message with empty content was acknowledged
\* without a dispatch
C5_Witness ==
  /\ PostParsed
  /\ req.outer = "present" /\ req.sigOk /\ req.plain # "throws" /\ req.parsed
  /\ req.MsgType = "text" /\ ~req.Content
  /\ res.statusCode = 200 /\ res.body = "success" /\ dispatched = 0

\* C6: the dispatcher is called, and then exactly once, only for a POST whose
\* Encrypt field is present, whose signature verifies, whose decryption
\* succeeds and whose message is text with non-empty content; once called, the
\* handler eventually responds 200 "success", whether the call resolves or
\* throws.
C6_DispatchOnlyOnSuccess ==
  /\ [](dispatched > 0 =>
          /\ dispatched = 1
          /\ req.method = "POST" /\ req.outer = "present" /\ req.sigOk
          /\ req.plain # "throws" /\ req.parsed
          /\ req.MsgType = "text" /\ req.Content)
  /\ []((hpc = "done" /\ dispatched > 0) =>
          (res.statusCode = 200 /\ res.body = "success"))
  /\ (hpc = "dispatching" ~>
        (hpc = "done" /\ res.statusCode = 200 /\ res.body = "success"))

\* the dispatch call threw and the request was still answered 200 "success"
C6_Witness ==
  /\ hpc = "done" /\ dispatched = 1 /\ dispatchResult = "throws"
  /\ res.statusCode = 200 /\ res.body = "success"

\* C7: a GET is answered by the first failing check: token or encodingAESKey
\* missing gives 500; else a signature mismatch gives 401; else the response is
\* 200 with the decrypted text as body, and a decryption failure gives 500.
C7_GetChecksInOrder ==
  (hpc = "done" /\ req.method = "GET" /\ ~req.fault) =>
    IF ~(req.token /\ req.encodingAESKey) THEN res.statusCode = 500
    ELSE IF ~req.sigOk THEN res.statusCode = 401
    ELSE IF req.plain = "throws" THEN res.statusCode = 500
    ELSE res.statusCode = 200 /\ res.body = req.plain

\* a GET with a valid signature whose echostr does not decrypt was answered 500
C7_Witness ==
  /\ hpc = "done" /\ req.method = "GET" /\ ~req.fault
  /\ req.token /\ req.encodingAESKey /\ req.sigOk /\ req.plain = "throws"
  /\ res.statusCode = 500

\* C8 (as claimed): every protocol-layer failure of a POST (configuration
\* missing, outer envelope that fails to parse, signature failure, decryption
\* failure, decrypted payload that fails to parse) is answered 200 "success",
\* and a POST gets a non-200 status, then 500, only on an internal fault (the
\* prologue, the body stream or the routing collaborator fails).
C8_PostNeverNon200 ==
  (hpc = "done" /\ req.method = "POST" /\ ~req.fault) =>
    /\ (\/ ~(req.token /\ req.encodingAESKey)
        \/ /\ req.read = "ok"
           /\ \/ req.outer = "throws"
              \/ req.outer = "absent"
              \/ ~req.sigOk
              \/ req.plain = "throws"
              \/ ~req.parsed)
       => (res.statusCode = 200 /\ res.body = "success")
    /\ res.statusCode # 200 =>
         /\ res.statusCode = 500
         /\ req.read = "error" \/ req.route = "throws"

\* a request whose method is neither GET nor POST has been answered
OtherMethodDone == hpc = "done" /\ req.method \notin {"GET", "POST"}

\* C22 (as claimed): a request whose HTTP method is neither GET nor POST is
\* answered with HTTP 405, and neither signature verification, decryption nor
\* dispatch is performed for it.
C22_AsStated ==
  OtherMethodDone =>
    (res.statusCode = 405 /\ calls = NoCalls /\ dispatched = 0)

\* C22: a request whose HTTP method is neither GET nor POST is answered with
\* HTTP 405 "Method not allowed" when the prologue of the handler (runtime
\* lookup, configuration load, URL parse) succeeds, and with HTTP 500
\* "Internal error" when it throws; in both cases neither signature
\* verification, decryption nor dispatch is performed for it.
C22_OtherMethods ==
  OtherMethodDone =>
    /\ res = IF req.fault THEN Respond(500, "Internal error")
             ELSE Respond(405, "Method not allowed")
    /\ calls = NoCalls
    /\ dispatched = 0

\* a PUT that a GET handler would have verified and decrypted was answered 405
\* with no call made
C22_Witness ==
  /\ OtherMethodDone /\ ~req.fault
  /\ req.token /\ req.encodingAESKey /\ req.sigOk /\ req.plain # "throws"
  /\ res.statusCode = 405 /\ calls = NoCalls /\ dispatched = 0

\* the strings the handler passes to res.end as literals
Literals ==
  {"WorkWeixin not configured", "Signature verification failed", "Decryption failed",
   "success", "Method not allowed", "Internal error"}

\* the request was a GET whose echostr was verified and decrypted
GetSucceeded ==
  /\ req.method = "GET" /\ ~req.fault /\ req.token /\ req.encodingAESKey
  /\ req.sigOk /\ req.plain # "throws"

\* something threw outside the local try blocks of the handler: the prologue,
\* the body stream, the outer XML parse or the routing collaborators
UncaughtFault ==
  \/ req.fault
  \/ /\ req.method = "POST" /\ req.token /\ req.encodingAESKey
     /\ \/ req.read = "error"
        \/ req.outer = "throws"
        \/ /\ req.outer = "present" /\ req.sigOk /\ req.plain # "throws"
           /\ req.parsed /\ req.MsgType = "text" /\ req.Content
           /\ req.route = "throws"

\* the requests that differ from req only in the configured secret or in the
\* decrypted POST payload and take the same path through the handler
SamePath ==
  { [req EXCEPT !.secret = s, !.plain = p] :
      s \in Secrets,
      p \in IF req.method = "POST" /\ req.plain # "throws" THEN Plaintexts
            ELSE {req.plain} }

\* C23: any uncaught fault in the handler yields HTTP 500 with a generic body;
\* the response body is one of the handler's fixed literal strings or, on a
\* successful GET, the decrypted echostr; so two requests that differ only in
\* the configured token/encodingAESKey value or in the POST payload and take
\* the same path receive identical response bodies.
C23_GenericBodies ==
  hpc = "done" =>
    /\ UncaughtFault => res = Respond(500, "Internal error")
    /\ IF GetSucceeded THEN res.body = req.plain ELSE res.body \in Literals
    /\ \A r \in SamePath : HandlerResponse(r, dispatchResult).body = res.body

\* the routing collaborator threw for a decrypted text message and the
\* request was answered 500 "Internal error", as for the other payload
C23_Witness ==
  /\ hpc = "done" /\ req.method = "POST" /\ ~req.fault
  /\ UncaughtFault /\ req.route = "throws" /\ req.plain = "p2" /\ req.secret = "s2"
  /\ res = Respond(500, "Internal error")
  /\ [req EXCEPT !.plain = "p1", !.secret = "s1"] \in SamePath

\* --------------------------- verifySignature and decryptMessage claims

\* the four values of the call, and the orders they can be passed in
Values == <<vsArgs.token, vsArgs.timestamp, vsArgs.nonce, vsArgs.echostr>>
Orders == {p \in [1..4 -> 1..4] : \A i, j \in 1..4 : p[i] = p[j] => i = j}

\* a is not after b in lexicographic order
NotAfter(a, b) ==
  \E n \in 0..Len(a) :
    /\ n <= Len(b)
    /\ \A i \in 1..n : a[i] = b[i]
    /\ n = Len(a) \/ (n < Len(b) /\ a[n + 1] < b[n + 1])

\* C19: verifySignature returns a boolean and never raises, returns the same
\* under every reordering of its first four arguments, and returns true exactly
\* when signature is the SHA1 hex digest of the four values concatenated,
\* without separator, in lexicographic order.
C19_SignatureSymmetric ==
  vsRet.called =>
    /\ vsRet.value \in BOOLEAN
    /\ \A p \in Orders :
         verifySignature(Values[p[1]], Values[p[2]], Values[p[3]], Values[p[4]],
                         Signature) = vsRet.value
    /\ vsRet.value <=>
         \E p \in Orders :
           /\ \A i \in 1..3 : NotAfter(Values[p[i]], Values[p[i + 1]])
           /\ Signature =
                Sha1Hex(Values[p[1]] \o Values[p[2]] \o Values[p[3]] \o Values[p[4]])

\* a call whose values were not passed in sorted order returned true, for a
\* signature that is not the digest of the values as passed
C19_Witness ==
  /\ vsRet.called /\ vsRet.value
  /\ ~NotAfter(vsArgs.token, vsArgs.timestamp)
  /\ ~NotAfter(vsArgs.nonce, vsArgs.echostr)
  /\ Signature # Sha1Hex(Join(Values))

\* C20: decrypting the reference encryption of
\* random16 ++ be32(len(content)) ++ content ++ corpId, PKCS#7 padded, under
\* (key, iv = key[0:16]) returns exactly content: the 16 random bytes, the
\* length prefix, the corpId and the padding are removed.
C20_RoundTrip ==
  dmRet.called => (~dmRet.threw /\ dmRet.value = dmArgs.content)

\* a content with a two-byte character came back, from a message with a
\* non-empty corpId and non-zero random bytes
C20_Witness ==
  /\ dmRet.called /\ ~dmRet.threw
  /\ dmRet.value = <<233, 97>>
  /\ dmArgs.content = <<233, 97>>
  /\ dmArgs.corpId # <<>>
  /\ dmArgs.random[1] # 0

\* the envelope of dmArgs is malformed: its ciphertext is not a whole number
\* of blocks, its plaintext has no length field, or 20 + contentLength exceeds
\* the length of the unpadded plaintext
Malformed ==
  \/ dmShape.cut # 0
  \/ dmShape.short
  \/ 20 + Len(Utf8Encode(dmArgs.content)) + dmShape.excess
       > Len(Plaintext(dmArgs, dmShape))

\* C21: decryptMessage fails with an error, and never returns a string,
\* whenever the envelope is malformed; in particular when 20 + contentLength
\* exceeds the length of the unpadded plaintext.
C21_MalformedFails ==
  (dmRet.called /\ Malformed) => dmRet.threw

\* ------------------------------------------------------ send path claims

\* caller c leaves its sleep in this step
Wakes(c) == callers[c].pc = "waiting" /\ callers'[c].pc # "waiting"

\* C29: a denied check suspends the caller, of waitForSlot and of
\* sendWorkWeixinMessage alike, for the waitTime the check returned; when the
\* sleep ends no check is run and no timestamp is recorded, and a send goes
\* on to circuitBreaker.execute without being counted in the window of its key.
C29_DeniedCallerNotCounted ==
  [][ /\ \A c \in Callers :
           (callers[c].pc = "idle" /\ sendLast'.caller = c /\ ~rlLast'.allowed)
             => /\ callers'[c].pc = "waiting"
                /\ callers'[c].waitTime = rlLast'.waitTime
                /\ admitted' = admitted
                /\ executes' = executes
      /\ \A c \in Callers :
           Wakes(c)
             => /\ now = callers[c].deniedAt + callers[c].waitTime
                /\ rlLast' = rlLast
                /\ requests' = requests
                /\ admitted' = admitted
                /\ callers[c].kind = "send"
                     => /\ cbLast'.op = "execute"
                        /\ executes'[callers[c].key] = executes[callers[c].key] + 1
                /\ callers[c].kind = "waitForSlot"
                     => /\ cbVars' = cbVars
                        /\ executes' = executes ]_vars

\* three sends reached the breaker, the last one after its sleep, and the
\* limiter recorded two timestamps only
C29_Witness ==
  /\ sendLast.op = "send wakes"
  /\ cbLast.op = "execute" /\ cbLast.admitted
  /\ executes["default"] = 3
  /\ Len(admitted["default"]) = 2
  /\ now \notin {requests["default"][i] : i \in 1..Len(requests["default"])}

\* ------------------------------------------------- breaker frame claims

\* the fields of the breaker, and whether fn has been started
Fields == <<state, failureCount, lastFailureTime, halfOpenSuccess>>

\* C35: an execute rejected with CircuitBreakerOpenError does not start fn and
\* leaves state, failureCount, lastFailureTime and halfOpenSuccess as they
\* were; isAvailable() and getState() change nothing, and isAvailable() is true
\* exactly when execute would admit a call at that instant.
C35_RejectionChangesNothing ==
  [][/\ (cbLast'.op = "execute" /\ ~cbLast'.admitted)
          => /\ cbLast'.value = "CircuitBreakerOpenError"
             /\ Fields' = Fields
             /\ inflight' = inflight
     /\ cbLast'.op \in {"isAvailable", "getState"}
          => /\ Fields' = Fields
             /\ inflight' = inflight
     /\ cbLast'.op = "isAvailable"
          => (cbLast'.value = "true"
                <=> (state # "open" \/ ResetElapsed(lastFailureTime, now)))]_vars

\* a call was rejected at the last instant of the open period, after the
\* failures that opened the breaker: their count and time are still in place
C35_Witness ==
  /\ cbLast.op = "execute" /\ ~cbLast.admitted
  /\ state = "open"
  /\ failureCount = failureThreshold
  /\ now = lastFailureTime + resetTimeout

\* C36: an open breaker has a lastFailureTime; a closed breaker has fewer
\* than failureThreshold failures counted; halfOpenSuccess is always below
\* halfOpenSuccessThreshold and is 0 on a closed breaker.
C36_BreakerInvariants ==
  /\ state = "open" => lastFailureTime # NoTime
  /\ state = "closed" => failureCount < failureThreshold
  /\ halfOpenSuccess < halfOpenSuccessThreshold
  /\ state = "closed" => halfOpenSuccess = 0

\* a trial failed with the counter at its largest value, and the breaker
\* reopened with the time of that failure
C36_Witness ==
  /\ cbLast.op = "failure" /\ cbLast.from = "half-open"
  /\ state = "open"
  /\ halfOpenSuccess = halfOpenSuccessThreshold - 1
  /\ lastFailureTime = now

\* C37: while the breaker is open the completion of an earlier call keeps it
\* open, a success only zeroing failureCount; the breaker leaves open only by an
\* execute admitted after the reset timeout or by reset(); halfOpenSuccess
\* counts the successes reported since half-open was entered, and the breaker
\* closes from half-open, reset() aside, only on the success that brings that
\* count to halfOpenSuccessThreshold.
C37_LateCompletions ==
  [][/\ (state = "open" /\ cbLast'.op = "success")
          => /\ state' = "open"
             /\ failureCount' = 0
             /\ lastFailureTime' = lastFailureTime
             /\ halfOpenSuccess' = halfOpenSuccess
     /\ (state = "open" /\ cbLast'.op = "failure") => state' = "open"
     /\ (state = "open" /\ state' # "open")
          => \/ cbLast'.op = "reset"
             \/ /\ cbLast'.op = "execute" /\ cbLast'.admitted
                /\ lastFailureTime # NoTime
                /\ now - lastFailureTime > resetTimeout
                /\ state' = "half-open"
                /\ halfOpenSuccess' = 0
     /\ (state = "half-open" /\ state' = "half-open")
          => halfOpenSuccess' = halfOpenSuccess + (IF cbLast'.op = "success" THEN 1 ELSE 0)
     /\ (state = "half-open" /\ state' = "closed")
          => \/ cbLast'.op = "reset"
             \/ /\ cbLast'.op = "success"
                /\ halfOpenSuccess + 1 = halfOpenSuccessThreshold]_vars

\* a call admitted before the breaker opened succeeded while it was open
C37_Witness ==
  /\ cbLast.op = "success" /\ cbLast.from = "open"
  /\ state = "open"
  /\ failureCount = 0
  /\ lastFailureTime # NoTime

\* ------------------------------------------------------ half-open trials

\* C30: between entering half-open and leaving it, at most
\* halfOpenSuccessThreshold calls are admitted, overlapping calls included.
C30_TrialCallsLimited ==
  state = "half-open" => trials <= halfOpenSuccessThreshold

\* the successful calls and the sum of their latencies
Successful == {id \in DOMAIN cpReqs : cpReqs[id].pc = "resolved"}

RECURSIVE SumResponseTimes(_)
SumResponseTimes(ids) ==
  IF ids = {} THEN 0
  ELSE LET id == CHOOSE x \in ids : TRUE
       IN cpReqs[id].responseTime + SumResponseTimes(ids \ {id})

\* C32: avgResponseTime is the mean of the latencies of all successful calls
\* (0 before the first one), and a failed call leaves it unchanged.
C32_AvgIsMean ==
  /\ Successful # {} =>
       cpStats.avgResponseTime = Frac(SumResponseTimes(Successful), Cardinality(Successful))
  /\ cpStats.successfulRequests = Cardinality(Successful)

\* ------------------------------------------------------ registry claims

\* the keys of the registry in insertion order
ConnKeysOf(map) == [i \in DOMAIN map |-> map[i].key]

\* C31: getConnection(key) on an absent key first evicts exactly the
\* oldest-inserted entry when the registry holds maxConnections entries, and
\* then creates the entry; every call sets lastUsed to now and adds one to
\* useCount; the registry never holds more than maxConnections entries.
C31_RegistryBounded ==
  [][/\ Len(connections') <= maxConnections
     /\ \A k \in ConnKeys :
          (connLast'.op = "getConnection" /\ connLast'.key = k) =>
            LET i == IndexOf(connections, k)
                j == IndexOf(connections', k)
            IN /\ j # 0
               /\ connections'[j] = connLast'.ret
               /\ connections'[j].lastUsed = now
               /\ connections'[j].useCount =
                    (IF i = 0 THEN 0 ELSE connections[i].useCount) + 1
               /\ i # 0 => ConnKeysOf(connections') = ConnKeysOf(connections)
               /\ (i = 0 /\ Len(connections) < maxConnections)
                    => ConnKeysOf(connections') = Append(ConnKeysOf(connections), k)
               /\ (i = 0 /\ Len(connections) = maxConnections)
                    => ConnKeysOf(connections') =
                         Append(Tail(ConnKeysOf(connections)), k)]_vars

\* ------------------------------------------------- queued send claims

\* the breaker rejected the send of slot w in this step
OpenRejection(w) ==
  /\ workers[w].pc = "sending"
  /\ w \notin executed
  /\ cbLast'.op = "execute" /\ ~cbLast'.admitted
  /\ mqLast'.op = "rejected" /\ mqLast'.item = workers[w].item

\* C40: on the queued path a CircuitBreakerOpenError is a delivery failure like
\* any other: with retries left the item's retry count and stats.retries grow
\* by one and the item waits its backoff, otherwise the item enters the failure
\* ledger with the message of the error; the breaker is as it was and no
\* request function was started for the item.
C40_OpenErrorIsAFailure ==
  [][\A w \in Slots :
       OpenRejection(w) =>
         LET item == workers[w].item
         IN /\ <<state, failureCount, lastFailureTime, halfOpenSuccess, inflight>>'
                 = <<state, failureCount, lastFailureTime, halfOpenSuccess, inflight>>
            /\ fnCalls' = fnCalls
            /\ mqLast'.err = OpenErrorMessage
            /\ IF itemRetries[item] < maxRetries
               THEN /\ itemRetries'[item] = itemRetries[item] + 1
                    /\ stats'.retries = stats.retries + 1
                    /\ stats'.failed = stats.failed
                    /\ failed' = failed
                    /\ workers'[w].pc = "backoff" /\ workers'[w].item = item
               ELSE /\ itemRetries' = itemRetries
                    /\ stats'.failed = stats.failed + 1
                    /\ stats'.retries = stats.retries
                    /\ failed' = Append(failed, [id |-> item, error |-> OpenErrorMessage,
                                                 retries |-> maxRetries])
                    /\ item \notin Pending(queue') \cup Held(workers')]_vars

\* an item is in the failure ledger after maxRetries + 1 attempts, every one
\* of them rejected by the open breaker: no request function ran for it
C40_Witness ==
  \E k \in DOMAIN failed :
    /\ failed[k].error = OpenErrorMessage
    /\ attempts[failed[k].id] = maxRetries + 1
    /\ fnCalls[failed[k].id] = 0
    /\ state = "open"

====
